---- MODULE Spec2Model ----
(***************************************************************************)
(* hidl2aidl: the version merge of a compound type (processCompoundType),  *)
(* the per-field translation emitted from the merged list, and the version *)
(* range resolver of main().                                               *)
(***************************************************************************)
EXTENDS Integers, Sequences, FiniteSets, TLC

\* ---------------------------------------------------------------- bounds
\* Fields one version of the compound type declares, at most.
MaxFields == 2
\* Sub-types one version of the compound type declares, at most.
MaxSubs == 1
\* The highest minor version of the package that may exist.
MaxMinor == 2
\* Elements an array or vector field of a converted value holds, at most.
MaxLen == 2

\* The longest list handed to a remove_if on its own.
MaxList == 4

\* The most enums a package defines.
MaxEnums == 2

\* ------------------------------------------------- the parsed HIDL input
\* The versions of the logical compound type "Foo", oldest first: type k of
\* the input has the (major, minor) pair Versions[k].
Versions == << <<1, 0>>, <<1, 1>>, <<2, 0>> >>

NTypes == Len(Versions)

\* Name of the field by which a newer version embeds version j.
EmbedNames == << "v1_0", "reference", "v2_0" >>

\* Names a version may give its ordinary fields.
PlainNames == {"a", "b"}

\* CompoundType::Style, as typeName() spells it.
Styles == {"struct", "safe_union", "union"}

LocalName == "Foo"

\* The declared type of the ordinary field n of version k: the same field
\* name may change its type between versions (OverrideMe in the tests).
PlainType(k, n) ==
    IF (k = 2) = (n = "a") THEN "string" ELSE "uint32_t"

\* A Type of the parsed input: its shape ("scalar", "string", "vector",
\* "array", "named", "other"), the scalar kind of a scalar, the element of a
\* container, and for a named type how the translator will find it; target
\* is the older version an embedding field refers to.
PlainTypeOf(kind) ==
    [scalar |-> kind, target |-> 0,
     shape |-> IF kind = "string" THEN "string" ELSE "scalar", elem |-> "", named |-> ""]

EmbeddedType(j) ==
    [scalar |-> "", target |-> j, shape |-> "named", elem |-> "", named |-> "converted"]

\* The fields version k can declare: an ordinary field, or a field whose
\* type is an older version j of the same compound type.
FieldChoices(k) ==
    {[name |-> n, type |-> PlainTypeOf(PlainType(k, n))] : n \in PlainNames}
    \cup {[name |-> EmbedNames[j], type |-> EmbeddedType(j)] : j \in 1..(k - 1)}

\* Field lists of version k: the parser rejects two fields of one name.
FieldSeqs(k) ==
    UNION {{s \in [1..m -> FieldChoices(k)] :
               \A i, j \in 1..m : i # j => s[i].name # s[j].name} : m \in 0..MaxFields}

\* The parser allocates the sub-type objects of one version together, in
\* the high (0) or in the low (1) part of the heap.
Arenas == {0, 1}

\* A version declares no sub-type, or MaxSubs of them; heap is where the
\* parser of this run has put their objects.
Decls(k) ==
    {[fields |-> fs, nsub |-> n, heap |-> h] :
        fs \in FieldSeqs(k), n \in {0, MaxSubs}, h \in Arenas}

EmptyDecl == [fields |-> <<>>, nsub |-> 0, heap |-> 0]

VARIABLES
    hidl,       \* the parsed versions: hidl[k] = [fields, nsub, heap]
    style,      \* the style of the compound type
    root,       \* the version processCompoundType is called on
    phase,      \* "idle", "merging", "merged", "emitted"
    stack,      \* the active calls of processCompoundType, innermost last
    fields,     \* processedType->fields
    subTypes,   \* processedType->subTypes, in the set's iteration order
    notes,      \* the lines written to AidlHelper::notes()
    translated, \* the statements emitted for the merged fields
    definition  \* the AIDL definition emitted for the compound type

mergeVars == <<hidl, style, root, phase, stack, fields, subTypes, notes, translated,
               definition>>

\* The state of main(): the version range resolver and the emission loop.
VARIABLES
    exists,          \* what coordinator.packageExists answers for each minor version
    fqName,          \* the package version asked for on the command line
    force,           \* forceConvertOldInterfaces (-f)
    pc,              \* the position of main()
    highest,         \* getHighestExistingFqName's local
    lowest,          \* getLowestExistingFqName's local
    versionIt,       \* the loop variable "version" of the target loop
    probes,          \* the minor versions packageExists was asked about, in order
    targets,         \* std::vector<FQName> targets
    collected,       \* history: targets as collected, before the remove_if
    namedTypes,      \* std::vector<const NamedType*> namedTypesInPackage
    collectedTypes,  \* history: namedTypesInPackage as collected
    cursor,          \* the index of the loops over targets
    output,          \* what has been written to the output directory, in order
    exitCode         \* -1 while running, then the exit status

resolveVars == <<exists, fqName, force, pc, highest, lowest, versionIt, probes, targets,
                 collected, namedTypes, collectedTypes, cursor, output, exitCode>>

\* The state of one call of a generated converter.
VARIABLES
    input,      \* the legacy value: in
    out,        \* the modern value being filled: *out, or Java's local out
    ip,         \* the statement the converter is at
    idx,        \* the loop variable i of a container loop
    result,     \* "none" while running; "true", "false", "returned", "thrown"
    message     \* the message of the RuntimeException thrown

convertVars == <<input, out, ip, idx, result, message>>

\* The state of AidlHelper::emitTranslation for one package.
VARIABLES
    package,    \* the named types of the package: its enums, its compound types
    sources,    \* the translate sources written, one per backend, in order
    backendIt   \* the position of the loop over the backends

translationVars == <<package, sources, backendIt>>

vars == <<mergeVars, resolveVars, convertVars, translationVars>>

\* Versions embedded by version k, and all versions a merge of k visits.
Embedded(h, k) ==
    {h[k].fields[i].type.target : i \in 1..Len(h[k].fields)} \ {0}

RECURSIVE Reach(_, _)
Reach(h, k) == {k} \cup UNION {Reach(h, j) : j \in Embedded(h, k)}

\* ------------------------------------------------------------ accessors
\* Type::typeName(): a compound type's is its style and local name.
TypeNameOfField(f) ==
    IF f.type.target # 0 THEN <<style, LocalName>> ELSE <<"", f.type.scalar>>

CompoundTypeName(k) == <<style, LocalName>>

\* A NamedReference<Type>* is the place of its declaration: <<version, index>>.
FieldAt(ref) == hidl[ref[1]].fields[ref[2]]

FieldName(ref) == FieldAt(ref).name

\* The address of a sub-type object within its part of the heap.
Offset(sub) == 100 - (10 * sub[1] + sub[2])

\* The address of a sub-type object: std::set<const NamedType*> iterates in
\* address order, which is not the declaration order and depends on where
\* the objects of this run were allocated.
Addr(sub) == 100 * (1 - hidl[sub[1]].heap) + Offset(sub)

\* compoundType.getSubTypes(): version k's own sub-types, in declaration order.
GetSubTypes(k) == [i \in 1..hidl[k].nsub |-> <<k, i>>]

\* compoundType.fqName().getVersion(): every parsed type carries its version.
GetVersion(k) == Versions[k]

\* ------------------------------------------------- processCompoundType
\* SetInsert without the test for an equal key (a multiset's insert).
SetInsertAlways(s, x) ==
    LET below == SelectSeq(s, LAMBDA y : Addr(y) <= Addr(x))
        above == SelectSeq(s, LAMBDA y : Addr(y) > Addr(x))
    IN  below \o <<x>> \o above

\* std::set::insert, the set kept as its iteration order (by address).
SetInsert(s, x) ==
    IF \E i \in 1..Len(s) : s[i] = x THEN s
    ELSE LET below == SelectSeq(s, LAMBDA y : Addr(y) < Addr(x))
             above == SelectSeq(s, LAMBDA y : Addr(y) > Addr(x))
         IN  below \o <<x>> \o above

\* The loop "for subType in getSubTypes(): subTypes.insert(subType)".
RECURSIVE InsertSubTypes(_, _)
InsertSubTypes(s, subs) ==
    IF subs = <<>> THEN s
    ELSE InsertSubTypes(SetInsert(s, Head(subs)), Tail(subs))

\* FindByName looking at the last entry only.
FindByNameLast(fs, name) ==
    IF fs # <<>> /\ FieldName(fs[Len(fs)].field) = name THEN Len(fs) ELSE 0

\* std::find_if over processedType->fields by field name: the index of the
\* first entry of that name, 0 for end().
FindByName(fs, name) ==
    IF \E i \in 1..Len(fs) : FieldName(fs[i].field) = name
    THEN CHOOSE i \in 1..Len(fs) :
             /\ FieldName(fs[i].field) = name
             /\ \A j \in 1..(i - 1) : FieldName(fs[j].field) # name
    ELSE 0

\* NewerVersion comparing the minor versions only.
NewerMinor(v, w) == v[2] > w[2]

\* The comparison that decides a conflict: version is strictly newer than
\* the version of the entry found.
NewerVersion(v, w) ==
    v[1] > w[1] \/ (v[1] = w[1] /\ v[2] > w[2])

\* PushBack overwriting the last entry, and PushBack inserting in front.
PushOverLast(fs, entry) ==
    IF fs = <<>> THEN <<entry>> ELSE [fs EXCEPT ![Len(fs)] = entry]

PushFront(fs, entry) == <<entry>> \o fs

\* processedType->fields.push_back(entry).
PushBack(fs, entry) == Append(fs, entry)

\* The prefix handed to the recursive call, and the access path of a field:
\* fieldNamePrefix + field->name() + "." and fieldNamePrefix + field->name().
ChildPrefix(prefix, name) == prefix \o <<name, ".">>

FullName(prefix, name) == prefix \o <<name>>

\* The line written when the newly visited field wins a conflict.
KeepNewNote(f, version, it) ==
    [name |-> f.name, of |-> LocalName,
     keptType |-> TypeNameOfField(f), keptVersion |-> version,
     discardedType |-> TypeNameOfField(FieldAt(it.field)), discardedVersion |-> it.version]

\* KeepOldNote with the two contributions the wrong way round.
KeepOldNoteSwapped(f, version, it) ==
    [name |-> f.name, of |-> LocalName,
     keptType |-> TypeNameOfField(f), keptVersion |-> version,
     discardedType |-> TypeNameOfField(FieldAt(it.field)), discardedVersion |-> it.version]

\* The line written when the entry already in the list is kept.
KeepOldNote(f, version, it) ==
    [name |-> f.name, of |-> LocalName,
     keptType |-> TypeNameOfField(FieldAt(it.field)), keptVersion |-> it.version,
     discardedType |-> TypeNameOfField(f), discardedVersion |-> version]

Top == stack[Len(stack)]

AtField == stack # <<>> /\ Top.idx <= Len(hidl[Top.type].fields)

CurRef == <<Top.type, Top.idx>>

CurField == FieldAt(CurRef)

IsEmbedding == AtField /\ TypeNameOfField(CurField) = CompoundTypeName(Top.type)

IsConflict == AtField /\ ~IsEmbedding /\ FindByName(fields, CurField.name) # 0

Advance == [stack EXCEPT ![Len(stack)].idx = @ + 1]

\* The call on the newest version: its sub-types are gathered, then its
\* fields are walked.
ProcessCompoundType ==
    /\ phase = "idle"
    /\ phase' = "merging"
    /\ subTypes' = InsertSubTypes(subTypes, GetSubTypes(root))
    /\ stack' = <<[type |-> root, idx |-> 1, prefix |-> <<>>]>>
    /\ UNCHANGED <<hidl, style, root, fields, notes, translated, definition, resolveVars, convertVars, translationVars>>

\* A field whose type is an older version of the compound type: recurse.
Recurse ==
    /\ phase = "merging"
    /\ IsEmbedding
    /\ LET child == CurField.type.target
       IN  /\ subTypes' = InsertSubTypes(subTypes, GetSubTypes(child))
           /\ stack' = Append(Advance,
                              [type |-> child, idx |-> 1,
                               prefix |-> ChildPrefix(Top.prefix, CurField.name)])
    /\ UNCHANGED <<hidl, style, root, phase, fields, notes, translated, definition, resolveVars, convertVars, translationVars>>

\* A field name not yet in the merged list.
AddField ==
    /\ phase = "merging"
    /\ AtField /\ ~IsEmbedding
    /\ FindByName(fields, CurField.name) = 0
    /\ fields' = PushBack(fields, [field |-> CurRef,
                                   fullName |-> FullName(Top.prefix, CurField.name),
                                   version |-> GetVersion(Top.type)])
    /\ stack' = Advance
    /\ UNCHANGED <<hidl, style, root, phase, subTypes, notes, translated, definition, resolveVars, convertVars, translationVars>>

\* A winner that is put behind the last entry, the entry it replaces
\* being taken out of the list.
ConflictKeepNewAtEnd ==
    /\ phase = "merging"
    /\ IsConflict
    /\ LET i == FindByName(fields, CurField.name)
           version == GetVersion(Top.type)
       IN  /\ NewerVersion(version, fields[i].version)
           /\ notes' = Append(notes, KeepNewNote(CurField, version, fields[i]))
           /\ fields' = Append(SubSeq(fields, 1, i - 1) \o SubSeq(fields, i + 1, Len(fields)),
                               [field |-> CurRef,
                                fullName |-> FullName(Top.prefix, CurField.name),
                                version |-> version])
    /\ stack' = Advance
    /\ UNCHANGED <<hidl, style, root, phase, subTypes, translated, definition, resolveVars, convertVars, translationVars>>

\* A conflict the newly visited field wins: the entry found is overwritten.
ConflictKeepNew ==
    /\ phase = "merging"
    /\ IsConflict
    /\ LET i == FindByName(fields, CurField.name)
           version == GetVersion(Top.type)
       IN  /\ NewerVersion(version, fields[i].version)
           /\ notes' = Append(notes, KeepNewNote(CurField, version, fields[i]))
           /\ fields' = [fields EXCEPT ![i] =
                            [field |-> CurRef,
                             fullName |-> FullName(Top.prefix, CurField.name),
                             version |-> version]]
    /\ stack' = Advance
    /\ UNCHANGED <<hidl, style, root, phase, subTypes, translated, definition, resolveVars, convertVars, translationVars>>

\* A conflict the newly visited field loses: the list is left alone.
ConflictKeepOld ==
    /\ phase = "merging"
    /\ IsConflict
    /\ LET i == FindByName(fields, CurField.name)
           version == GetVersion(Top.type)
       IN  /\ ~NewerVersion(version, fields[i].version)
           /\ notes' = Append(notes, KeepOldNote(CurField, version, fields[i]))
    /\ stack' = Advance
    /\ UNCHANGED <<hidl, style, root, phase, fields, subTypes, translated, definition, resolveVars, convertVars, translationVars>>

\* The field loop of one call is over: return to the caller.
Return ==
    /\ phase = "merging"
    /\ stack # <<>> /\ ~AtField
    /\ stack' = SubSeq(stack, 1, Len(stack) - 1)
    /\ phase' = IF Len(stack) = 1 THEN "merged" ELSE "merging"
    /\ UNCHANGED <<hidl, style, root, fields, subTypes, notes, translated, definition, resolveVars, convertVars, translationVars>>

\* ------------------------------------------------ the AIDL definition
NoDefinition ==
    [written |-> FALSE, placeholder |-> FALSE, body |-> <<>>, comment |-> "",
     hidlDefinition |-> FALSE, emitted |-> <<>>, imports |-> {}]

\* What follows "parcelable <name> ": the merged fields of a struct; for a
\* union or safe_union "{}", a comment, and the HIDL definition as a comment.
CompoundDefinition(st, fs) ==
    IF st = "struct"
    THEN [written |-> TRUE, placeholder |-> FALSE,
          body |-> [i \in 1..Len(fs) |-> FieldName(fs[i].field)],
          comment |-> "", hidlDefinition |-> FALSE, emitted |-> <<>>, imports |-> {}]
    ELSE [written |-> TRUE, placeholder |-> TRUE, body |-> <<>>,
          comment |-> "// Cannot convert unions/safe_unions since AIDL does not support them.",
          hidlDefinition |-> TRUE, emitted |-> <<>>, imports |-> {}]

\* One piece of output: the file header of the type, the whole output of
\* emitAidl for a sub-type, the import lines, the definition text.
Piece(what, of) == [what |-> what, of |-> of]

\* The order of output with the parent's definition ahead of its sub-types.
EmitOrderParentFirst(subs) ==
    <<Piece("header", <<root, 0>>), Piece("imports", <<root, 0>>),
      Piece("definition", <<root, 0>>)>>
    \o [i \in 1..Len(subs) |-> Piece("aidl", subs[i])]

\* The order in which emitAidl of a compound type produces output: the file
\* with its header is opened, every merged sub-type is emitted in the
\* set's iteration order, then the imports and the definition are written.
EmitOrder(subs) ==
    <<Piece("header", <<root, 0>>)>>
    \o [i \in 1..Len(subs) |-> Piece("aidl", subs[i])]
    \o <<Piece("imports", <<root, 0>>), Piece("definition", <<root, 0>>)>>

\* importLocallyReferencedType: the import of the type is added to the set.
importLocallyReferencedType(name, at, imports) ==
    imports \cup {[name |-> name, at |-> at]}

\* std::find over the newest version's own fields, and over its own
\* sub-types: both compare pointers.
InLatestFields(ref) == \E i \in 1..Len(hidl[root].fields) : <<root, i>> = ref

InLatestSubTypes(sub) == \E i \in 1..hidl[root].nsub : GetSubTypes(root)[i] = sub

RECURSIVE FieldImports(_, _)
RECURSIVE SubTypeImports(_, _)

\* The loop over the merged fields, from an import set on.
FieldImports(fs, imports) ==
    IF fs = <<>> THEN imports
    ELSE FieldImports(Tail(fs),
                      IF InLatestFields(Head(fs).field) THEN imports
                      ELSE importLocallyReferencedType(
                               TypeNameOfField(FieldAt(Head(fs).field))[2], <<0, 0>>, imports))

\* The loop over the merged sub-types.
SubTypeImports(subs, imports) ==
    IF subs = <<>> THEN imports
    ELSE SubTypeImports(Tail(subs),
                        IF InLatestSubTypes(Head(subs)) THEN imports
                        ELSE importLocallyReferencedType("sub", Head(subs), imports))

\* Imports for every merged field and sub-type, the newest version's too.
ImportsOfAll(fs, subs) ==
    {[name |-> TypeNameOfField(FieldAt(fs[i].field))[2], at |-> <<0, 0>>] : i \in 1..Len(fs)}
    \cup {[name |-> "sub", at |-> subs[i]] : i \in 1..Len(subs)}

\* The imports missed by the file header: those of the merged fields and
\* sub-types that are not the newest version's own.
ExtraImports(fs, subs) == SubTypeImports(subs, FieldImports(fs, {}))

\* emitAidl of the compound type after the merge: the sub-types are
\* emitted, then the imports and the definition are written.
EmitDefinition ==
    /\ phase = "merged"
    /\ definition = NoDefinition
    /\ definition' = [CompoundDefinition(style, fields) EXCEPT
                          !.emitted = EmitOrder(subTypes),
                          !.imports = ExtraImports(fields, subTypes)]
    /\ UNCHANGED <<hidl, style, root, phase, stack, fields, subTypes, notes, translated,
                   resolveVars, convertVars, translationVars>>

\* ----------------------------------------- the per-field translation
Backends == {"NDK", "CPP", "JAVA"}

\* StringHelper::Capitalize of an access path: its first name, capitalised.
CapitalizeName(n) ==
    CASE n = "a" -> "A"
      [] n = "b" -> "B"
      [] n = "v1_0" -> "V1_0"
      [] n = "reference" -> "Reference"
      [] OTHER -> "V2_0"

Capitalize(path) == <<CapitalizeName(Head(path))>> \o Tail(path)

\* kSignedMaxSize without its entry for KIND_UINT64.
HasSignedMaxSizeNoUint64(kind) == kind \in {"uint8_t", "int16_t", "uint32_t"}

\* kSignedMaxSize: the scalar kinds that get a range check, with their limit.
HasSignedMaxSize(kind) == kind \in {"uint8_t", "int16_t", "uint32_t", "uint64_t"}

\* The limit is std::numeric_limits<T>::max() of the type T named here.
SignedMaxSize(kind) ==
    CASE kind = "uint8_t" -> "int8_t"
      [] kind = "int16_t" -> "int32_t"
      [] kind = "uint32_t" -> "int32_t"
      [] OTHER -> "int64_t"

\* h2aScalarChecks: the guard emitted before a scalar is copied, if any.
h2aScalarChecks(scalar, inputAccess, backend) ==
    IF scalar # "string" /\ HasSignedMaxSize(scalar)
    THEN <<[access |-> inputAccess,
            cond |-> IF scalar = "int16_t" THEN "< 0" ELSE "> max || < 0",
            maxOf |-> SignedMaxSize(scalar),
            fail |-> IF backend = "JAVA" THEN "throw" ELSE "return false"]>>
    ELSE <<>>

\* AidlHelper::getAidlType of a scalar: the fixed table of the type mapping.
getAidlType(kind) ==
    CASE kind \in {"int8_t", "uint8_t"} -> "byte"
      [] kind \in {"int16_t", "uint16_t"} -> "char"
      [] kind \in {"int32_t", "uint32_t"} -> "int"
      [] kind \in {"int64_t", "uint64_t"} -> "long"
      [] OTHER -> kind

\* kAidlBackendScalarTypes: the static_cast wrapStaticCast emits for an AIDL
\* scalar type, none for any other type.
kAidlBackendScalarTypes(aidlType) ==
    CASE aidlType = "boolean" -> "static_cast<bool>"
      [] aidlType = "byte" -> "static_cast<int8_t>"
      [] aidlType = "char" -> "static_cast<char16_t>"
      [] aidlType = "int" -> "static_cast<int32_t>"
      [] aidlType = "long" -> "static_cast<int64_t>"
      [] aidlType = "float" -> "static_cast<float>"
      [] aidlType = "double" -> "static_cast<double>"
      [] OTHER -> ""

\* wrapCppSource: String16(...) for a string in the CPP backend, a
\* static_cast for a scalar the AIDL backend names, the payload otherwise.
wrapCppSource(scalar, backend) ==
    IF scalar = "string"
    THEN (IF backend = "CPP" THEN "String16" ELSE "")
    ELSE IF scalar = "enum" THEN "static_cast<enum>"
    ELSE kAidlBackendScalarTypes(getAidlType(scalar))

\* simpleTranslation reading the legacy value at the field's bare name.
simpleTranslationByName(field, parentStyle, backend) ==
    LET f == FieldAt(field.field)
        inputAccess == <<"in", ".", f.name>>
        called == inputAccess \o <<"()">>
    IN  IF parentStyle = "struct"
        THEN [checks |-> h2aScalarChecks(f.type.scalar, inputAccess, backend),
              dst |-> IF backend = "JAVA" THEN <<"out", ".", f.name>>
                      ELSE <<"out", "->", f.name>>,
              src |-> inputAccess,
              wrap |-> IF backend = "JAVA" THEN "" ELSE wrapCppSource(f.type.scalar, backend)]
        ELSE [checks |-> h2aScalarChecks(f.type.scalar, called, backend),
              dst |-> IF backend = "JAVA" THEN <<"out", ".", "set", CapitalizeName(f.name)>>
                      ELSE <<"*out">>,
              src |-> called,
              wrap |-> IF backend = "JAVA" THEN "" ELSE wrapCppSource(f.type.scalar, backend)]

\* simpleTranslation: the assignment emitted for a scalar or string field:
\* what it reads (src), what it writes (dst), the guard before it.
simpleTranslation(field, parentStyle, backend) ==
    LET f == FieldAt(field.field)
        inputAccess == <<"in", ".">> \o field.fullName
        called == inputAccess \o <<"()">>
    IN  IF backend = "JAVA"
        THEN IF parentStyle = "struct"
             THEN [checks |-> h2aScalarChecks(f.type.scalar, inputAccess, backend),
                   dst |-> <<"out", ".", f.name>>, src |-> inputAccess, wrap |-> ""]
             ELSE [checks |-> h2aScalarChecks(f.type.scalar, called, backend),
                   dst |-> <<"out", ".", "set">> \o Capitalize(field.fullName),
                   src |-> called, wrap |-> ""]
        ELSE IF parentStyle = "struct"
             THEN [checks |-> h2aScalarChecks(f.type.scalar, inputAccess, backend),
                   dst |-> <<"out", "->", f.name>>, src |-> inputAccess,
                   wrap |-> wrapCppSource(f.type.scalar, backend)]
             ELSE [checks |-> h2aScalarChecks(f.type.scalar, called, backend),
                   dst |-> <<"*out">>, src |-> called,
                   wrap |-> wrapCppSource(f.type.scalar, backend)]

\* What a statement of the converter carries besides its kind.
NoCode == [checks |-> <<>>, dst |-> <<>>, src |-> <<>>, wrap |-> "", text |-> ""]

\* namedTypeTranslation: a call of the type's own converter when the type
\* is among namedTypes; else the hook of the replaced type, if it has one;
\* else the marker and a note.
namedTypeTranslation(field, parentStyle, backend) ==
    LET f == FieldAt(field.field)
        inputAccess == <<"in", ".">> \o field.fullName
    IN  CASE f.type.named = "replaced_hook" ->
                [stmt |-> NoCode @@ [op |-> "hook"], notes |-> <<>>]
          [] f.type.named = "replaced" ->
                [stmt |-> NoCode @@ [op |-> "none"], notes |-> <<>>]
          [] f.type.named = "unknown" ->
                [stmt |-> [NoCode EXCEPT !.text = "#error FIXME Unknown type: "]
                              @@ [op |-> "marker"],
                 notes |-> <<[note |-> "An unknown named type was found in translation: ",
                              field |-> f.name]>>]
          [] OTHER ->
                [stmt |->
                    [NoCode EXCEPT
                        !.src = IF parentStyle = "struct" THEN inputAccess
                                ELSE inputAccess \o <<"()">>,
                        !.dst = IF parentStyle = "struct"
                                THEN (IF backend = "JAVA" THEN <<"out", ".", f.name>>
                                      ELSE <<"out", "->", f.name>>)
                                ELSE (IF backend = "JAVA"
                                      THEN <<"out", ".", "set", CapitalizeName(f.name)>>
                                      ELSE <<"out", "->", "set">> \o field.fullName),
                        !.wrap = IF backend = "JAVA" THEN "h2aTranslate" ELSE "translate"]
                    @@ [op |-> "call"],
                 notes |-> <<>>]

\* containerTranslation: a marker for an element that is itself a container
\* or a named type other than an enum; else the loop over the elements,
\* with the scalar check of the element before the copy.
containerTranslation(field, parentStyle, backend) ==
    LET f == FieldAt(field.field)
        inputAccess == <<"in", ".">> \o field.fullName
        element == IF backend = "JAVA"
                   THEN inputAccess \o <<IF f.type.shape = "array" THEN "[i]" ELSE ".get(i)">>
                   ELSE inputAccess \o <<"[i]">>
    IN  CASE f.type.elem \in {"vector", "array"} ->
                [stmt |-> [NoCode EXCEPT !.text = "#error Nested arrays and vectors are currently not supported. Needs implementation for field: "]
                              @@ [op |-> "marker"],
                 notes |-> <<>>]
          [] f.type.elem = "compound" ->
                [stmt |-> [NoCode EXCEPT !.text = "#error Arrays of NamedTypes are not currently not supported. Needs implementation for field: "]
                              @@ [op |-> "marker"],
                 notes |-> <<>>]
          [] OTHER ->
                [stmt |-> [NoCode EXCEPT
                              !.checks = h2aScalarChecks(f.type.elem, element, backend),
                              !.src = element,
                              !.dst = <<"out", IF backend = "JAVA" THEN "." ELSE "->", f.name>>,
                              !.wrap = IF backend = "JAVA" THEN ""
                                       ELSE wrapCppSource(f.type.elem, backend)]
                          @@ [op |-> "loop"],
                 notes |-> <<>>]

\* h2aFieldTranslation: the translation of one merged field by the shape of
\* its type, and the notes it writes.
h2aFieldTranslation(field, parentStyle, backend) ==
    LET f == FieldAt(field.field)
    IN  CASE f.type.shape = "named" -> namedTypeTranslation(field, parentStyle, backend)
          [] f.type.shape \in {"array", "vector"} ->
                containerTranslation(field, parentStyle, backend)
          [] f.type.shape \in {"scalar", "string"} ->
                [stmt |-> simpleTranslation(field, parentStyle, backend)
                              @@ [op |-> "assign", text |-> ""],
                 notes |-> <<>>]
          [] OTHER ->
                [stmt |-> [NoCode EXCEPT !.text = "#error FIXME Unhandled type: "]
                              @@ [op |-> "marker"],
                 notes |-> <<[note |-> "An unhandled type was found in translation: ",
                              field |-> f.name]>>]

RECURSIVE Concat(_)
Concat(ss) == IF ss = <<>> THEN <<>> ELSE Head(ss) \o Concat(Tail(ss))

\* emitTranslateSource for the merged type and one backend: nothing but a
\* comment for a union (none at all in Java); else the function, with one
\* translation per merged field, under a switch on the discriminator for a
\* safe_union.
EmitTranslateSource ==
    /\ phase = "merged"
    /\ definition # NoDefinition
    /\ phase' = "emitted"
    /\ \E backend \in Backends :
          LET emitted == [i \in 1..Len(fields) |->
                            h2aFieldTranslation(fields[i], style, backend)]
          IN  /\ translated' =
                    [backend |-> backend,
                     fixme |-> (style = "union" /\ backend # "JAVA"),
                     stmts |-> IF style = "union" THEN <<>>
                               ELSE [i \in 1..Len(fields) |-> emitted[i].stmt],
                     cases |-> IF style # "safe_union" THEN <<>>
                               ELSE [i \in 1..Len(fields) |-> FieldName(fields[i].field)]]
              /\ notes' = IF style = "union" THEN notes
                          ELSE notes \o Concat([i \in 1..Len(fields) |-> emitted[i].notes])
    /\ UNCHANGED <<hidl, style, root, stack, fields, subTypes, definition, resolveVars, convertVars, translationVars>>

\* ------------------------------------------ the values a converter sees
\* sizeof a scalar kind, in bytes.
Width(kind) ==
    CASE kind \in {"int8_t", "uint8_t"} -> 1
      [] kind \in {"int16_t", "uint16_t", "char16_t"} -> 2
      [] kind \in {"int32_t", "uint32_t"} -> 4
      [] OTHER -> 8

Signed(kind) == kind \in {"int8_t", "int16_t", "int32_t", "int64_t"}

\* A scalar is its bytes, most significant first: Bits(kind, <<top, rest>>).
Bits(kind, p) == [i \in 1..Width(kind) |-> IF i = 1 THEN p[1] ELSE p[2]]

TopBit(bits) == bits[1] >= 128

\* The number the bytes stand for under a signedness: the unsigned value of
\* the bytes, less 2^(8 * Len(bits)) when neg is 1.
Num(bits, signed) == [neg |-> IF signed /\ TopBit(bits) THEN 1 ELSE 0, bits |-> bits]

ZeroExtend(bits, n) == [i \in 1..(n - Len(bits)) |-> 0] \o bits

RECURSIVE BytesLess(_, _)
BytesLess(a, b) ==
    IF a = <<>> THEN FALSE
    ELSE IF Head(a) # Head(b) THEN Head(a) < Head(b)
    ELSE BytesLess(Tail(a), Tail(b))

\* x < y as numbers; the operands the emitted comparisons meet have one
\* width whenever both are negative.
Less(x, y) ==
    IF x.neg # y.neg THEN x.neg = 1
    ELSE LET n == IF Len(x.bits) > Len(y.bits) THEN Len(x.bits) ELSE Len(y.bits)
         IN  BytesLess(ZeroExtend(x.bits, n), ZeroExtend(y.bits, n))

\* std::numeric_limits<T>::max() of a signed type T.
NumericLimitsMax(type) ==
    Num([i \in 1..Width(type) |-> IF i = 1 THEN 127 ELSE 255], TRUE)

\* How the legacy value is held: the C++ types keep HIDL's signedness, the
\* Java types (byte, short, int, long) are all signed.
LegacySigned(kind, backend) == IF backend = "JAVA" THEN TRUE ELSE Signed(kind)

\* The modern type is signed except char (char16_t).
ModernSigned(kind) == getAidlType(kind) # "char"

\* A check whose condition no value meets.
CheckNeverFails(check, bits, kind, backend) == FALSE

\* The condition of an emitted check, evaluated on the bytes read.
CheckFails(check, bits, kind, backend) ==
    LET x == Num(bits, LegacySigned(kind, backend))
    IN  IF check.cond = "< 0" THEN x.neg = 1
        ELSE Less(NumericLimitsMax(check.maxOf), x) \/ x.neg = 1

\* ------------------------------------------------ the inputs of a call
MemberNames == <<"a", "b">>

ScalarKinds == {"uint8_t", "int16_t", "uint32_t", "uint64_t", "int32_t"}

Patterns == {<<0, 0>>, <<112, 0>>, <<127, 255>>, <<128, 0>>, <<240, 0>>, <<255, 255>>}

ElemPatterns == {<<112, 0>>, <<240, 0>>}

NoValue == [bits |-> <<>>, text |-> "", elems |-> <<>>, nested |-> ""]

ContainerType(shape, elem) ==
    [scalar |-> "", target |-> 0, shape |-> shape, elem |-> elem, named |-> ""]

NamedTypeOf(how) ==
    [scalar |-> "", target |-> 0, shape |-> "named", elem |-> "", named |-> how]

OtherType == [scalar |-> "", target |-> 0, shape |-> "other", elem |-> "", named |-> ""]

\* The values an element of a container can hold.
ElemValues(elem) ==
    CASE elem = "uint32_t" -> {[NoValue EXCEPT !.bits = Bits(elem, p)] : p \in ElemPatterns}
      [] elem = "string" -> {[NoValue EXCEPT !.text = "Hello world!"]}
      [] elem = "enum" -> {[NoValue EXCEPT !.bits = Bits("uint32_t", <<0, 0>>)]}
      [] OTHER -> {}

SeqsUpTo(S, n) == UNION {[1..m -> S] : m \in 0..n}

\* A field type together with a legacy value of it.
TypedValues ==
    {[type |-> PlainTypeOf(k), value |-> [NoValue EXCEPT !.bits = Bits(k, p)]] :
        k \in ScalarKinds, p \in Patterns}
    \cup {[type |-> PlainTypeOf("string"), value |-> [NoValue EXCEPT !.text = "Hello world!"]]}
    \cup UNION {{[type |-> ContainerType(sh, e), value |-> [NoValue EXCEPT !.elems = es]] :
                    es \in SeqsUpTo(ElemValues(e), MaxLen)} :
                sh \in {"vector", "array"},
                e \in {"uint32_t", "string", "enum", "vector", "compound"}}
    \cup {[type |-> NamedTypeOf("converted"), value |-> [NoValue EXCEPT !.nested = n]] :
             n \in {"ok", "failEarly", "failLate"}}
    \cup {[type |-> NamedTypeOf(h), value |-> NoValue] :
             h \in {"replaced_hook", "replaced", "unknown"}}
    \cup {[type |-> OtherType, value |-> NoValue]}

\* One value for each type, held by the members a safe_union does not select.
DefaultOf(type) ==
    CHOOSE v \in {tv.value : tv \in {x \in TypedValues : x.type = type}} : TRUE

MemberSeqs == UNION {[1..n -> TypedValues] : n \in 1..Len(MemberNames)}

\* ------------------------------------------------------- specification
NoTranslation == [backend |-> "", fixme |-> FALSE, stmts |-> <<>>, cases |-> <<>>]

\* The inputs of a merge. Only the place of the oldest version's sub-type
\* objects is varied: that gives the sub-types of two versions either order.
Inputs ==
    {h \in Decls(1) \X Decls(2) \X Decls(3) :
        /\ \E r \in 1..NTypes : \A k \in 1..NTypes : k \notin Reach(h, r) => h[k] = EmptyDecl
        /\ \A k \in 1..NTypes : (k > 1 \/ h[k].nsub = 0) => h[k].heap = 0}

NoFQName == [package |-> "", major |-> 0, minor |-> 0, name |-> ""]

NoPackage == [enums |-> <<>>, compounds |-> 0]

\* emitTranslation is not running.
TranslationIdle == package = NoPackage /\ sources = <<>> /\ backendIt = 0

\* No generated converter is running.
ConvertIdle ==
    /\ input = <<>> /\ out = <<>> /\ ip = 0 /\ idx = 0 /\ result = "none" /\ message = <<>>

\* main() is not running.
ResolveIdle ==
    /\ exists = <<>> /\ fqName = NoFQName /\ force = FALSE /\ pc = "off"
    /\ highest = NoFQName /\ lowest = NoFQName /\ versionIt = NoFQName /\ probes = <<>>
    /\ targets = <<>> /\ collected = <<>> /\ namedTypes = <<>> /\ collectedTypes = <<>>
    /\ cursor = 0 /\ output = <<>> /\ exitCode = -1

Init ==
    /\ ResolveIdle
    /\ ConvertIdle
    /\ TranslationIdle
    /\ hidl \in Inputs
    /\ root \in {r \in 1..NTypes : \A k \in 1..NTypes : k \notin Reach(hidl, r) => hidl[k] = EmptyDecl}
    /\ style \in Styles
    /\ phase = "idle"
    /\ stack = <<>>
    /\ fields = <<>>
    /\ subTypes = <<>>
    /\ notes = <<>>
    /\ translated = NoTranslation
    /\ definition = NoDefinition

Next ==
    \/ ProcessCompoundType
    \/ Recurse
    \/ AddField
    \/ ConflictKeepNew
    \/ ConflictKeepOld
    \/ Return
    \/ EmitDefinition
    \/ EmitTranslateSource

Spec == Init /\ [][Next]_vars

\* ------------------------------------------------------------- main()
\* An FQName of the package: android.hardware.foo@1.<minor>::<name>.
MkFQName(minor, name) ==
    [package |-> "android.hardware.foo", major |-> 1, minor |-> minor, name |-> name]

\* The .hal files a package version may hold, in the order in which
\* appendPackageInterfacesToVector lists them, and the types a types.hal may
\* define, in the order of getSortedDefinedTypes.
Files == <<"types", "IFoo">>

TypeNames == <<"Bar", "Foo">>

Range(s) == {s[i] : i \in 1..Len(s)}

downRev(f) == [f EXCEPT !.minor = @ - 1]

upRev(f) == [f EXCEPT !.minor = @ + 1]

\* coordinator.packageExists: "yes", "no", or "err" (err != OK).
PackageExists(f) ==
    IF f.minor \in DOMAIN exists THEN exists[f.minor] ELSE "no"

\* getNewerFQName returning its right operand whatever the versions.
getNewerFQNameRhs(lhs, rhs) == rhs

getNewerFQName(lhs, rhs) ==
    IF lhs.major > rhs.major THEN lhs
    ELSE IF lhs.major < rhs.major THEN rhs
    ELSE IF lhs.minor > rhs.minor THEN lhs
    ELSE rhs

\* The loop of getLatestMinorVersionFQNameFromList from element i on.
RECURSIVE LatestFrom(_, _, _, _)
LatestFrom(list, i, currentCandidate, found) ==
    IF i > Len(list) THEN currentCandidate
    ELSE LET current == list[i]
         IN  IF /\ current.package = currentCandidate.package
                /\ current.name = currentCandidate.name
                /\ current.major = currentCandidate.major
             THEN LatestFrom(list, i + 1,
                             IF found THEN getNewerFQName(current, currentCandidate)
                             ELSE current,
                             TRUE)
             ELSE LatestFrom(list, i + 1, currentCandidate, found)

getLatestMinorVersionFQNameFromList(fq, list) == LatestFrom(list, 1, fq, FALSE)

\* The same loop over NamedType pointers, read through fqName().
getLatestMinorVersionNamedTypeFromList(fq, list) ==
    LatestFrom([i \in 1..Len(list) |-> list[i].fqName], 1, fq, FALSE)

\* A predicate over targets that treats types.hal as any other file.
TargetsPredAllFiles(x, list) == getLatestMinorVersionFQNameFromList(x, list) # x

\* The predicate of the remove_if over targets, and of the one over
\* namedTypesInPackage: both search the list being compacted.
TargetsPred(x, list) ==
    IF x.name = "types" THEN FALSE
    ELSE getLatestMinorVersionFQNameFromList(x, list) # x

TypesPred(x, list) ==
    getLatestMinorVersionNamedTypeFromList(x.fqName, list) # x.fqName

Pred(kind, x, list) ==
    IF kind = "targets" THEN TargetsPred(x, list) ELSE TypesPred(x, list)

\* What std::move leaves behind: a pointer is copied; an FQName is copied
\* too, or left with empty strings, as the library's string move decides.
MovedFrom(kind, x, mv) ==
    IF kind = "targets" /\ mv = "empty" THEN [x EXCEPT !.package = "", !.name = ""]
    ELSE x

\* std::remove_if in place: the elements before first are kept, those from
\* i on are still to be tested; a kept element is moved down to first.
RECURSIVE RemoveLoop(_, _, _, _, _)
RemoveLoop(kind, list, first, i, mv) ==
    IF i > Len(list) THEN [list |-> list, newEnd |-> first]
    ELSE IF ~Pred(kind, list[i], list)
         THEN RemoveLoop(kind,
                         [list EXCEPT ![first] = list[i],
                                      ![i] = MovedFrom(kind, list[i], mv)],
                         first + 1, i + 1, mv)
         ELSE RemoveLoop(kind, list, first, i + 1, mv)

\* A find_if that finds nothing to remove.
FindFirstNone(kind, list) == Len(list) + 1

\* The std::find_if that starts remove_if: the first element to remove.
FindFirst(kind, list) ==
    IF \E i \in 1..Len(list) : Pred(kind, list[i], list)
    THEN CHOOSE i \in 1..Len(list) :
             /\ Pred(kind, list[i], list)
             /\ \A j \in 1..(i - 1) : ~Pred(kind, list[j], list)
    ELSE Len(list) + 1

\* remove_if followed by erase(newEnd, end()).
RemoveIfErase(kind, list, mv) ==
    LET f == FindFirst(kind, list)
        r == IF f > Len(list) THEN [list |-> list, newEnd |-> f]
             ELSE RemoveLoop(kind, list, f, f + 1, mv)
    IN  SubSeq(r.list, 1, r.newEnd - 1)

\* The targets one package version contributes, and the NamedTypes one
\* types.hal defines.
FileList(v, present) ==
    LET names == SelectSeq(Files, LAMBDA n : n \in present)
    IN  [i \in 1..Len(names) |-> MkFQName(v.minor, names[i])]

TypeList(target, present) ==
    LET names == SelectSeq(TypeNames, LAMBDA n : n \in present)
    IN  [i \in 1..Len(names) |-> [fqName |-> MkFQName(target.minor, names[i])]]

\* exit(1).
Exit1 == pc' = "exit" /\ exitCode' = 1

\* A loop of getLowestExistingFqName without the test for minor 0.
LowestLoopUnguarded(l) == TRUE

\* A loop of getLowestExistingFqName that never steps down to minor 0.
LowestLoopAboveOne(l) == l.minor > 1

\* The condition of the loop of getLowestExistingFqName.
LowestLoop(l) == l.minor # 0

\* Lines 232-237: the requested version must exist.
CheckTarget ==
    /\ pc = "start"
    /\ probes' = Append(probes, fqName.minor)
    /\ \/ /\ PackageExists(fqName) \in {"err", "no"}
          /\ Exit1
          /\ UNCHANGED <<highest, lowest>>
       \/ /\ PackageExists(fqName) = "yes"
          /\ pc' = IF force THEN "lowest" ELSE "highest"
          /\ highest' = fqName
          /\ lowest' = fqName
          /\ UNCHANGED exitCode
    /\ UNCHANGED <<exists, fqName, force, versionIt, targets, collected, namedTypes,
                   collectedTypes, cursor, output, mergeVars, convertVars, translationVars>>

\* getHighestExistingFqName: one turn of its loop.
HighestProbe ==
    /\ pc = "highest"
    /\ probes' = Append(probes, upRev(highest).minor)
    /\ \/ /\ PackageExists(upRev(highest)) = "err"
          /\ Exit1
          /\ UNCHANGED highest
       \/ /\ PackageExists(upRev(highest)) = "yes"
          /\ highest' = upRev(highest)
          /\ UNCHANGED <<pc, exitCode>>
       \/ /\ PackageExists(upRev(highest)) = "no"
          /\ pc' = "newer"
          /\ UNCHANGED <<highest, exitCode>>
    /\ UNCHANGED <<exists, fqName, force, lowest, versionIt, targets, collected, namedTypes,
                   collectedTypes, cursor, output, mergeVars, convertVars, translationVars>>

\* Lines 239-246: a newer minor version was found.
NewerCheck ==
    /\ pc = "newer"
    /\ IF fqName # highest
       THEN Exit1
       ELSE pc' = "lowest" /\ UNCHANGED exitCode
    /\ UNCHANGED <<exists, fqName, force, highest, lowest, versionIt, probes, targets,
                   collected, namedTypes, collectedTypes, cursor, output, mergeVars, convertVars, translationVars>>

\* getLowestExistingFqName: one turn of its loop, or its return.
LowestProbe ==
    /\ pc = "lowest"
    /\ \/ /\ LowestLoop(lowest)
          /\ probes' = Append(probes, downRev(lowest).minor)
          /\ \/ /\ PackageExists(downRev(lowest)) = "err"
                /\ Exit1
                /\ UNCHANGED <<lowest, versionIt>>
             \/ /\ PackageExists(downRev(lowest)) = "yes"
                /\ lowest' = downRev(lowest)
                /\ UNCHANGED <<pc, exitCode, versionIt>>
             \/ /\ PackageExists(downRev(lowest)) = "no"
                /\ pc' = "collect"
                /\ versionIt' = lowest
                /\ UNCHANGED <<lowest, exitCode>>
       \/ /\ ~LowestLoop(lowest)
          /\ pc' = "collect"
          /\ versionIt' = lowest
          /\ UNCHANGED <<lowest, exitCode, probes>>
    /\ UNCHANGED <<exists, fqName, force, highest, targets, collected, namedTypes,
                   collectedTypes, cursor, output, mergeVars, convertVars, translationVars>>

\* Lines 256-264: one turn of the target loop.
CollectTargets ==
    /\ pc = "collect"
    /\ versionIt.minor <= fqName.minor
    /\ \/ /\ Exit1
          /\ UNCHANGED <<versionIt, targets>>
       \/ /\ \E present \in SUBSET Range(Files) :
                targets' = targets \o FileList(versionIt, present)
          /\ versionIt' = upRev(versionIt)
          /\ UNCHANGED <<pc, exitCode>>
    /\ UNCHANGED <<exists, fqName, force, highest, lowest, probes, collected, namedTypes,
                   collectedTypes, cursor, output, mergeVars, convertVars, translationVars>>

\* Lines 266-274: the targets that are not the newest are removed.
DedupTargets ==
    /\ pc = "collect"
    /\ versionIt.minor > fqName.minor
    /\ collected' = targets
    /\ \E mv \in {"copy", "empty"} : targets' = RemoveIfErase("targets", targets, mv)
    /\ pc' = "log"
    /\ UNCHANGED <<exists, fqName, force, highest, lowest, versionIt, probes, namedTypes,
                   collectedTypes, cursor, output, exitCode, mergeVars, convertVars, translationVars>>

\* Lines 276-282: the conversion log is created and its header written.
OpenLog ==
    /\ pc = "log"
    /\ output' = Append(output, [file |-> "conversion.log", of |-> fqName])
    /\ cursor' = 1
    /\ pc' = "types"
    /\ UNCHANGED <<exists, fqName, force, highest, lowest, versionIt, probes, targets,
                   collected, namedTypes, collectedTypes, exitCode, mergeVars, convertVars, translationVars>>

\* Lines 285-294: one turn of the loop that parses the types.hal files.
ParseTypes ==
    /\ pc = "types"
    /\ cursor <= Len(targets)
    /\ \/ /\ targets[cursor].name # "types"
          /\ cursor' = cursor + 1
          /\ UNCHANGED <<pc, exitCode, namedTypes>>
       \/ /\ targets[cursor].name = "types"
          /\ Exit1
          /\ UNCHANGED <<cursor, namedTypes>>
       \/ /\ targets[cursor].name = "types"
          /\ \E present \in SUBSET Range(TypeNames) :
                namedTypes' = namedTypes \o TypeList(targets[cursor], present)
          /\ cursor' = cursor + 1
          /\ UNCHANGED <<pc, exitCode>>
    /\ UNCHANGED <<exists, fqName, force, highest, lowest, versionIt, probes, targets,
                   collected, collectedTypes, output, mergeVars, convertVars, translationVars>>

\* Lines 296-302: the types that are not the newest are removed.
DedupTypes ==
    /\ pc = "types"
    /\ cursor > Len(targets)
    /\ collectedTypes' = namedTypes
    /\ namedTypes' = RemoveIfErase("types", namedTypes, "copy")
    /\ pc' = "emitTypes"
    /\ UNCHANGED <<exists, fqName, force, highest, lowest, versionIt, probes, targets,
                   collected, cursor, output, exitCode, mergeVars, convertVars, translationVars>>

\* Lines 304-306: every remaining type is emitted.
EmitTypes ==
    /\ pc = "emitTypes"
    /\ output' = output \o [i \in 1..Len(namedTypes) |->
                               [file |-> "aidl", of |-> namedTypes[i].fqName]]
    /\ cursor' = 1
    /\ pc' = "interfaces"
    /\ UNCHANGED <<exists, fqName, force, highest, lowest, versionIt, probes, targets,
                   collected, namedTypes, collectedTypes, exitCode, mergeVars, convertVars, translationVars>>

\* Lines 308-317: one turn of the loop that parses and emits the interfaces.
EmitInterfaces ==
    /\ pc = "interfaces"
    /\ cursor <= Len(targets)
    /\ \/ /\ targets[cursor].name = "types"
          /\ cursor' = cursor + 1
          /\ UNCHANGED <<pc, exitCode, output>>
       \/ /\ targets[cursor].name # "types"
          /\ Exit1
          /\ UNCHANGED <<cursor, output>>
       \/ /\ targets[cursor].name # "types"
          /\ output' = Append(output, [file |-> "aidl", of |-> targets[cursor]])
          /\ cursor' = cursor + 1
          /\ UNCHANGED <<pc, exitCode>>
    /\ UNCHANGED <<exists, fqName, force, highest, lowest, versionIt, probes, targets,
                   collected, namedTypes, collectedTypes, mergeVars, convertVars, translationVars>>

\* Lines 319-321: the log is closed and main returns 0.
Finish ==
    /\ pc = "interfaces"
    /\ cursor > Len(targets)
    /\ output' = Append(output, [file |-> "END OF LOG", of |-> fqName])
    /\ pc' = "exit"
    /\ exitCode' = 0
    /\ UNCHANGED <<exists, fqName, force, highest, lowest, versionIt, probes, targets,
                   collected, namedTypes, collectedTypes, cursor, mergeVars, convertVars, translationVars>>

\* No merge is running.
MergeIdle ==
    /\ hidl = <<>> /\ style = "" /\ root = 0 /\ phase = "off" /\ stack = <<>>
    /\ fields = <<>> /\ subTypes = <<>> /\ notes = <<>>
    /\ translated = NoTranslation
    /\ definition = NoDefinition

ResolveInit ==
    /\ MergeIdle
    /\ ConvertIdle
    /\ TranslationIdle
    /\ exists \in [0..MaxMinor -> {"yes", "no", "err"}]
    /\ fqName \in {MkFQName(m, "") : m \in 0..MaxMinor}
    /\ force \in BOOLEAN
    /\ pc = "start"
    /\ highest = NoFQName /\ lowest = NoFQName /\ versionIt = NoFQName
    /\ probes = <<>>
    /\ targets = <<>> /\ collected = <<>> /\ namedTypes = <<>> /\ collectedTypes = <<>>
    /\ cursor = 0 /\ output = <<>> /\ exitCode = -1

NextResolve ==
    \/ CheckTarget
    \/ HighestProbe
    \/ NewerCheck
    \/ LowestProbe
    \/ CollectTargets
    \/ DedupTargets
    \/ OpenLog
    \/ ParseTypes
    \/ DedupTypes
    \/ EmitTypes
    \/ EmitInterfaces
    \/ Finish

SpecResolve == ResolveInit /\ [][NextResolve]_vars

\* ------------------------------------------- a call of the converter
\* What the output holds before the call: a member never written is "old";
\* the caller's container may be empty or hold elements already.
OldElem == [bits |-> <<>>, text |-> "old", type |-> ""]

\* An element of a Java array just allocated.
DefaultElem == [bits |-> <<>>, text |-> "default", type |-> ""]

OldSlot(stale) ==
    [state |-> "old", bits |-> <<>>, text |-> "", type |-> "",
     elems |-> IF stale THEN <<OldElem>> ELSE <<>>]

\* The type of the modern member a scalar or string is stored to.
ModernType(scalar, wrap) ==
    IF scalar = "string" THEN (IF wrap = "String16" THEN "String16" ELSE "string")
    ELSE getAidlType(scalar)

\* A copy that clears the top bit of what it stores.
ConvertedWrapped(scalar, value, wrap) ==
    [bits |-> IF value.bits = <<>> THEN <<>>
              ELSE [value.bits EXCEPT ![1] = @ % 128],
     text |-> value.text, type |-> ModernType(scalar, wrap)]

\* The value an emitted copy stores: the same bytes, read as the modern type.
Converted(scalar, value, wrap) ==
    [bits |-> value.bits, text |-> value.text, type |-> ModernType(scalar, wrap)]

Decl(i) == hidl[root].fields[i]

Stmt(i) == translated.stmts[i]

\* "*out = value" of the C++ backends selects the member of the union by the
\* type of the value: the members that have that type.
MembersOfType(i) ==
    {j \in 1..Len(translated.stmts) :
        /\ Stmt(j).op = "assign"
        /\ ModernType(Decl(j).type.scalar, Stmt(j).wrap)
              = ModernType(Decl(i).type.scalar, Stmt(i).wrap)}

\* The emitted source compiles: it holds no #error marker and no spliced
\* code; a union has no member to loop into, and its assignment by type
\* must find one member.
Compiles ==
    /\ style # "union"
    /\ \A i \in 1..Len(translated.stmts) : Stmt(i).op \in {"assign", "call", "loop", "none"}
    /\ style = "safe_union" =>
          /\ \A i \in 1..Len(translated.stmts) : Stmt(i).op # "loop"
          /\ translated.backend # "JAVA" =>
                \A i \in 1..Len(translated.stmts) :
                    Stmt(i).op = "assign" => MembersOfType(i) = {i}

Failure == IF translated.backend = "JAVA" THEN "thrown" ELSE "false"

\* return false, or throw new RuntimeException(msg).
Fail(msg) ==
    /\ result' = Failure
    /\ message' = IF translated.backend = "JAVA" THEN msg ELSE message
    /\ phase' = "done"

\* The statement after the one at ip: the next field of a struct, the end
\* of the switch after the break of a case.
AfterStmt == IF style = "struct" THEN ip + 1 ELSE Len(translated.stmts) + 1

Running(op) ==
    /\ phase = "running"
    /\ ip \in 1..Len(translated.stmts)
    /\ Stmt(ip).op = op

\* A switch whose default label stands before the first case, without a
\* statement of its own.
CaseOfFallThrough(disc) ==
    IF \E i \in 1..Len(translated.cases) : translated.cases[i] = disc
    THEN CHOOSE i \in 1..Len(translated.cases) : translated.cases[i] = disc
    ELSE 1

\* The case the switch jumps to: that of the field the discriminator names;
\* 0 is default.
CaseOf(disc) ==
    IF \E i \in 1..Len(translated.cases) : translated.cases[i] = disc
    THEN CHOOSE i \in 1..Len(translated.cases) : translated.cases[i] = disc
    ELSE 0

\* The caller passes in and out; Java's converter makes its own out.
CallConverter ==
    /\ phase = "emitted"
    /\ Compiles
    /\ phase' = "running"
    /\ \E stale \in IF translated.backend = "JAVA" THEN {FALSE} ELSE BOOLEAN :
          out' = [tag |-> 0, slots |-> [i \in 1..Len(translated.stmts) |-> OldSlot(stale)]]
    /\ ip' = IF style = "struct" THEN 1 ELSE 0
    /\ idx' = 0
    /\ UNCHANGED <<hidl, style, root, stack, fields, subTypes, notes, translated, input,
                   result, message, definition, resolveVars, translationVars>>

\* switch (in.getDiscriminator()): the case of the field named by the
\* discriminator, or default.
Switch ==
    /\ phase = "running"
    /\ style = "safe_union"
    /\ ip = 0
    /\ IF CaseOf(input.disc) # 0
       THEN /\ ip' = CaseOf(input.disc)
            /\ UNCHANGED <<phase, result, message>>
       ELSE /\ Fail(<<"Unknown discriminator value: ", <<input.disc>>>>)
            /\ UNCHANGED ip
    /\ UNCHANGED <<hidl, style, root, stack, fields, subTypes, notes, translated, input, out,
                   idx, definition, resolveVars, translationVars>>

\* A copy that stands before its check: the member is stored, then checked.
RunAssignStoreFirst ==
    /\ Running("assign")
    /\ LET st == Stmt(ip)
           kind == Decl(ip).type.scalar
           v == input.values[ip]
           to == IF st.dst = <<"*out">> THEN CHOOSE j \in MembersOfType(ip) : TRUE ELSE ip
       IN  /\ out' = [tag |-> IF style = "struct" THEN out.tag ELSE to,
                      slots |-> [out.slots EXCEPT ![to] =
                                    Converted(kind, v, st.wrap)
                                        @@ [state |-> "written", elems |-> <<>>]]]
           /\ IF st.checks # <<>> /\ CheckFails(st.checks[1], v.bits, kind, translated.backend)
              THEN /\ Fail(<<"Unsafe conversion between signed and unsigned scalars for field: ",
                             st.checks[1].access>>)
                   /\ UNCHANGED ip
              ELSE /\ ip' = AfterStmt
                   /\ UNCHANGED <<phase, result, message>>
    /\ UNCHANGED <<hidl, style, root, stack, fields, subTypes, notes, translated, input, idx,
                   definition, resolveVars, translationVars>>

\* The check and the copy simpleTranslation emitted for a scalar or string.
RunAssign ==
    /\ Running("assign")
    /\ LET st == Stmt(ip)
           kind == Decl(ip).type.scalar
           v == input.values[ip]
       IN  IF st.checks # <<>> /\ CheckFails(st.checks[1], v.bits, kind, translated.backend)
           THEN /\ Fail(<<"Unsafe conversion between signed and unsigned scalars for field: ",
                          st.checks[1].access>>)
                /\ UNCHANGED <<out, ip>>
           ELSE /\ LET to == IF st.dst = <<"*out">>
                             THEN CHOOSE j \in MembersOfType(ip) : TRUE
                             ELSE ip
                   IN  out' = [tag |-> IF style = "struct" THEN out.tag ELSE to,
                               slots |-> [out.slots EXCEPT ![to] =
                                             Converted(kind, v, st.wrap)
                                                 @@ [state |-> "written", elems |-> <<>>]]]
                /\ ip' = AfterStmt
                /\ UNCHANGED <<phase, result, message>>
    /\ UNCHANGED <<hidl, style, root, stack, fields, subTypes, notes, translated, input, idx,
                   definition, resolveVars, translationVars>>

\* A call whose result is not looked at: the next field follows whatever
\* the nested converter returned.
RunCallUnchecked ==
    /\ Running("call")
    /\ out' = [tag |-> IF style = "struct" THEN out.tag ELSE ip,
               slots |-> [out.slots EXCEPT ![ip] =
                             [state |-> "written", bits |-> <<>>,
                              text |-> input.values[ip].nested,
                              type |-> "converted", elems |-> <<>>]]]
    /\ ip' = AfterStmt
    /\ UNCHANGED <<phase, result, message>>
    /\ UNCHANGED <<hidl, style, root, stack, fields, subTypes, notes, translated, input, idx,
                   definition, resolveVars, translationVars>>

\* The call of the converter of a named type: it succeeds, or it fails
\* before or after it has written to its output.
RunCall ==
    /\ Running("call")
    /\ LET v == input.values[ip]
           written == [state |-> "written", bits |-> <<>>, text |-> v.nested,
                       type |-> "converted", elems |-> <<>>]
           partial == [written EXCEPT !.state = "partial"]
       IN  CASE v.nested = "ok" ->
                  /\ out' = [tag |-> IF style = "struct" THEN out.tag ELSE ip,
                             slots |-> [out.slots EXCEPT ![ip] = written]]
                  /\ ip' = AfterStmt
                  /\ UNCHANGED <<phase, result, message>>
             [] v.nested = "failLate" /\ style = "struct" /\ translated.backend # "JAVA" ->
                  /\ out' = [out EXCEPT !.slots[ip] = partial]
                  /\ Fail(<<>>)
                  /\ UNCHANGED ip
             [] OTHER ->
                  /\ Fail(<<"nested", <<>>>>)
                  /\ UNCHANGED <<out, ip>>
    /\ UNCHANGED <<hidl, style, root, stack, fields, subTypes, notes, translated, input, idx,
                   definition, resolveVars, translationVars>>

\* One turn of the loop containerTranslation emitted: the check of element
\* i, then its copy; Java allocates the array before the first turn.
RunLoop ==
    /\ Running("loop")
    /\ idx < Len(input.values[ip].elems)
    /\ LET st == Stmt(ip)
           kind == Decl(ip).type.elem
           e == input.values[ip].elems[idx + 1]
           java == translated.backend = "JAVA"
           size == Len(input.values[ip].elems)
           before == IF java /\ idx = 0 THEN [i \in 1..size |-> DefaultElem]
                     ELSE out.slots[ip].elems
           allocated == [out EXCEPT !.slots[ip].elems = before,
                                    !.slots[ip].state = "partial"]
       IN  IF st.checks # <<>> /\ CheckFails(st.checks[1], e.bits, kind, translated.backend)
           THEN /\ Fail(<<"Unsafe conversion between signed and unsigned scalars for field: ",
                          st.checks[1].access>>)
                /\ out' = IF java THEN allocated ELSE out
                /\ UNCHANGED idx
           ELSE /\ out' = [allocated EXCEPT !.slots[ip].elems =
                              IF java THEN [before EXCEPT ![idx + 1] = Converted(kind, e, st.wrap)]
                              ELSE Append(before, Converted(kind, e, st.wrap))]
                /\ idx' = idx + 1
                /\ UNCHANGED <<phase, result, message>>
    /\ UNCHANGED <<hidl, style, root, stack, fields, subTypes, notes, translated, input, ip,
                   definition, resolveVars, translationVars>>

\* The loop ends at i = size.
EndLoop ==
    /\ Running("loop")
    /\ idx = Len(input.values[ip].elems)
    /\ out' = [out EXCEPT !.slots[ip].state = "written",
                          !.slots[ip].elems =
                              IF translated.backend = "JAVA" /\ idx = 0 THEN <<>> ELSE @]
    /\ ip' = AfterStmt
    /\ idx' = 0
    /\ UNCHANGED <<hidl, style, root, phase, stack, fields, subTypes, notes, translated, input,
                   result, message, definition, resolveVars, translationVars>>

\* A field for which nothing was emitted.
RunNone ==
    /\ Running("none")
    /\ ip' = AfterStmt
    /\ UNCHANGED <<hidl, style, root, phase, stack, fields, subTypes, notes, translated, input,
                   out, idx, result, message, definition, resolveVars, translationVars>>

\* return true, or return out.
ReturnValue ==
    /\ phase = "running"
    /\ ip = Len(translated.stmts) + 1
    /\ result' = IF translated.backend = "JAVA" THEN "returned" ELSE "true"
    /\ phase' = "done"
    /\ UNCHANGED <<hidl, style, root, stack, fields, subTypes, notes, translated, input, out,
                   ip, idx, message, definition, resolveVars, translationVars>>

\* A compound type of one version, already merged, and a legacy value of it.
ConvertInit ==
    /\ ResolveIdle
    /\ TranslationIdle
    /\ root = 1
    /\ style \in Styles
    /\ \E ms \in MemberSeqs :
          /\ hidl = <<[fields |-> [i \in 1..Len(ms) |->
                                      [name |-> MemberNames[i], type |-> ms[i].type]],
                       nsub |-> 0, heap |-> 0],
                      EmptyDecl, EmptyDecl>>
          /\ \E d \in {MemberNames[i] : i \in 1..Len(ms)} \cup {"unknown"} :
                /\ style = "struct" => d = "unknown"
                /\ style = "union" => d = "unknown"
                /\ input = [disc |-> d, values |-> [i \in 1..Len(ms) |-> ms[i].value]]
          /\ style # "struct" =>
                \A i \in 1..Len(ms) :
                    (style = "union" \/ MemberNames[i] # input.disc)
                        => ms[i].value = DefaultOf(ms[i].type)
    /\ fields = [i \in 1..Len(hidl[1].fields) |->
                    [field |-> <<1, i>>, fullName |-> <<MemberNames[i]>>,
                     version |-> GetVersion(1)]]
    /\ phase = "merged"
    /\ stack = <<>> /\ subTypes = <<>> /\ notes = <<>>
    /\ translated = NoTranslation
    /\ definition = NoDefinition
    /\ out = <<>> /\ ip = 0 /\ idx = 0 /\ result = "none" /\ message = <<>>

NextConvert ==
    \/ EmitDefinition
    \/ EmitTranslateSource
    \/ CallConverter
    \/ Switch
    \/ RunAssign
    \/ RunCall
    \/ RunLoop
    \/ EndLoop
    \/ RunNone
    \/ ReturnValue

SpecConvert == ConvertInit /\ [][NextConvert]_vars

\* ------------------------------------- the two remove_if of main()
\* The lists of at most MaxList entries the two remove_if may be handed,
\* in any order and with repetitions.
AnyTargets ==
    UNION {[1..n -> {MkFQName(m, f) : m \in 0..MaxMinor, f \in Range(Files)}] :
              n \in 0..MaxList}

AnyNamedTypes ==
    UNION {[1..n -> {[fqName |-> MkFQName(m, t)] : m \in 0..MaxMinor, t \in Range(TypeNames)}] :
              n \in 0..MaxList}

\* main() stands before one of its two remove_if, with a list of any
\* content.
DedupInit ==
    /\ MergeIdle
    /\ ConvertIdle
    /\ TranslationIdle
    /\ exists = [m \in 0..MaxMinor |-> "yes"]
    /\ fqName = MkFQName(MaxMinor, "")
    /\ force = TRUE
    /\ highest = fqName /\ lowest = MkFQName(0, "")
    /\ versionIt = upRev(fqName)
    /\ probes = <<>>
    /\ collected = <<>> /\ collectedTypes = <<>>
    /\ output = <<>> /\ exitCode = -1
    /\ \/ /\ pc = "collect"
          /\ targets \in AnyTargets
          /\ namedTypes = <<>>
          /\ cursor = 0
       \/ /\ pc = "types"
          /\ targets = <<>>
          /\ namedTypes \in AnyNamedTypes
          /\ cursor = 1

NextDedup ==
    \/ DedupTargets
    \/ DedupTypes

SpecDedup == DedupInit /\ [][NextDedup]_vars

\* -------------------------------- the loops that must come to an end
\* The two version walks of main() and the recursion of
\* processCompoundType, each run to its end: the program is sequential, so
\* a step that can be taken is taken. Neither the style of the type nor
\* the place of its sub-types on the heap has a part in the recursion.
TerminatesInit ==
    \/ Init /\ style = "struct" /\ \A k \in 1..NTypes : hidl[k].heap = 0
    \/ ResolveInit

NextTerminates ==
    \/ CheckTarget
    \/ HighestProbe
    \/ NewerCheck
    \/ LowestProbe
    \/ ProcessCompoundType
    \/ Recurse
    \/ AddField
    \/ ConflictKeepNew
    \/ ConflictKeepOld
    \/ Return

SpecTerminates == TerminatesInit /\ [][NextTerminates]_vars /\ WF_vars(NextTerminates)

\* ------------------------------------------------- emitTranslation
\* The backends in the order of the loop of emitTranslation.
BackendOrder == <<"NDK", "CPP", "JAVA">>

EnumNames == <<"Color", "Mode", "Flag">>

\* An enum's values level by level, the root of its inheritance chain
\* first: an enum of its own, or one that extends a parent.
EnumChains ==
    {<< <<"A">> >>, << <<"A", "B">> >>, << <<"A">>, <<"B">> >>, << <<"A">>, <<"B", "C">> >>}

\* The packages: up to MaxEnums enums, in the iteration order of the set
\* of named types, and the number of compound types that were processed.
Packages ==
    {[enums |-> es, compounds |-> c] :
        es \in UNION {[1..n -> EnumChains] : n \in 0..MaxEnums}, c \in {0, 1}}

\* EnumType::forEachValueFromRoot: the values of every level of the chain,
\* the root's first.
forEachValueFromRoot(chain) == Concat(chain)

\* emitEnumStaticAssert: one static_assert per value from the root.
emitEnumStaticAssert(e, chain, backend) ==
    [i \in 1..Len(forEachValueFromRoot(chain)) |->
        [enum |-> EnumNames[e], value |-> forEachValueFromRoot(chain)[i], backend |-> backend]]

\* emitStaticAsserts: the assertions of every enum among the named types.
emitStaticAsserts(enums, backend) ==
    Concat([e \in 1..Len(enums) |-> emitEnumStaticAssert(e, enums[e], backend)])

\* emitTranslateSource for the whole package: the static_asserts (C++
\* only) and one function per processed compound type.
TranslateSource(pkg, backend) ==
    [backend |-> backend,
     header |-> backend # "JAVA",
     asserts |-> IF backend = "JAVA" THEN <<>> ELSE emitStaticAsserts(pkg.enums, backend),
     functions |-> pkg.compounds]

\* emitTranslation is entered: it returns at once if no compound type was
\* processed.
EmitTranslation ==
    /\ backendIt = 0
    /\ package # NoPackage
    /\ backendIt' = IF package.compounds = 0 THEN Len(BackendOrder) + 1 ELSE 1
    /\ UNCHANGED <<package, sources, mergeVars, resolveVars, convertVars>>

\* One turn of the loop over the backends: the header (C++ only) and the
\* source of the backend are written.
EmitBackend ==
    /\ backendIt \in 1..Len(BackendOrder)
    /\ sources' = Append(sources, TranslateSource(package, BackendOrder[backendIt]))
    /\ backendIt' = backendIt + 1
    /\ UNCHANGED <<package, mergeVars, resolveVars, convertVars>>

TranslationInit ==
    /\ MergeIdle
    /\ ResolveIdle
    /\ ConvertIdle
    /\ package \in Packages \ {NoPackage}
    /\ sources = <<>>
    /\ backendIt = 0

NextTranslation ==
    \/ EmitTranslation
    \/ EmitBackend

SpecTranslation == TranslationInit /\ [][NextTranslation]_vars

\* ------------------------------------------------ reference definitions
\* What the claims are stated against, read off the input alone.
Done == phase \in {"merged", "emitted"}

Names(fs) == [i \in 1..Len(fs) |-> FieldName(fs[i].field)]

IsPlain(k, i) == TypeNameOfField(hidl[k].fields[i]) # CompoundTypeName(k)

\* The ordinary fields a depth-first walk in declaration order meets, from
\* field i of version k on, in the order it meets them.
RECURSIVE Flatten(_, _)
Flatten(k, i) ==
    IF i > Len(hidl[k].fields) THEN <<>>
    ELSE (IF IsPlain(k, i) THEN << <<k, i>> >>
          ELSE Flatten(hidl[k].fields[i].type.target, 1)) \o Flatten(k, i + 1)

\* The versions that walk enters, once per entry.
RECURSIVE Visits(_, _)
Visits(k, i) ==
    IF i > Len(hidl[k].fields) THEN <<>>
    ELSE (IF IsPlain(k, i) THEN <<>>
          ELSE <<hidl[k].fields[i].type.target>> \o Visits(hidl[k].fields[i].type.target, 1))
         \o Visits(k, i + 1)

RECURSIVE FirstOccurrences(_)
FirstOccurrences(s) ==
    IF s = <<>> THEN <<>>
    ELSE LET front == FirstOccurrences(SubSeq(s, 1, Len(s) - 1))
             last == s[Len(s)]
         IN  IF \E i \in 1..Len(front) : front[i] = last THEN front
             ELSE Append(front, last)

FlatNames == [i \in 1..Len(Flatten(root, 1)) |-> FieldName(Flatten(root, 1)[i])]

\* The visited versions that declare an ordinary field named n.
Contributors(n) ==
    {k \in Reach(hidl, root) :
        \E i \in 1..Len(hidl[k].fields) : IsPlain(k, i) /\ hidl[k].fields[i].name = n}

\* The contributor of n with the highest (major, minor) pair.
Newest(n) ==
    CHOOSE k \in Contributors(n) :
        \A j \in Contributors(n) :
            j = k \/ Versions[k][1] > Versions[j][1]
                  \/ (Versions[k][1] = Versions[j][1] /\ Versions[k][2] > Versions[j][2])

\* The contributor of n the walk reaches first.
FirstReached(n) ==
    LET flat == Flatten(root, 1)
        i == CHOOSE i \in 1..Len(flat) :
                 /\ FieldName(flat[i]) = n
                 /\ \A j \in 1..(i - 1) : FieldName(flat[j]) # n
    IN  flat[i][1]

\* The dot-joined paths from version k to the field ref.
RECURSIVE Paths(_, _)
Paths(k, ref) ==
    (IF ref[1] = k THEN {<<FieldName(ref)>>} ELSE {})
    \cup UNION {{<<hidl[k].fields[i].name, ".">> \o p :
                    p \in Paths(hidl[k].fields[i].type.target, ref)} :
                i \in {i \in 1..Len(hidl[k].fields) : ~IsPlain(k, i)}}

\* ---------------------------------------------------------------- claims
NoDup(s) == \A i, j \in 1..Len(s) : i # j => s[i] # s[j]

\* C1: once processCompoundType has finished, no two entries of the merged
\* field list have the same field name.
C1_NoDuplicateNames == Done => NoDup(Names(fields))

\* C1's case: a merge over several versions that met a conflict is over.
C1_Witness == Done /\ Len(fields) >= 2 /\ notes # <<>> /\ Cardinality(Reach(hidl, root)) = 3

\* C2: for a field name that visited versions contribute, the entry kept is
\* the one of the contributor with the highest (major, minor) pair, whichever
\* contributor the walk reached first.
C2_KeptIsHighest ==
    Done => \A n \in PlainNames :
                Contributors(n) # {} =>
                    \E i \in 1..Len(fields) :
                        /\ FieldName(fields[i].field) = n
                        /\ fields[i].field[1] = Newest(n)
                        /\ fields[i].version = Versions[Newest(n)]

\* C2's case: one name whose newest contributor was reached first and one
\* whose newest contributor was reached after an older one.
C2_Witness ==
    /\ Done
    /\ \E n, m \in PlainNames :
          /\ Cardinality(Contributors(n)) >= 2 /\ Cardinality(Contributors(m)) >= 2
          /\ FirstReached(n) = Newest(n)
          /\ FirstReached(m) # Newest(m)

\* C3: merging a version that embeds no older version yields that version's
\* own field list: the same fields (name and type) in the same order.
C3_SingleVersionIdentity ==
    (Done /\ Embedded(hidl, root) = {}) =>
        /\ Len(fields) = Len(hidl[root].fields)
        /\ \A i \in 1..Len(fields) :
              /\ fields[i].field = <<root, i>>
              /\ FieldName(fields[i].field) = hidl[root].fields[i].name
              /\ FieldAt(fields[i].field).type = hidl[root].fields[i].type

\* C3's case: a version with two fields and no embedding has been merged.
C3_Witness == Done /\ Embedded(hidl, root) = {} /\ Len(fields) = 2

\* The access path of every merged field is a dot-joined path of embedding
\* field names from the newest version to the field, then its own name.
PathsRight ==
    \A i \in 1..Len(fields) : fields[i].fullName \in Paths(root, fields[i].field)

\* Scenario A: Foo@1.1 {v1_0: Foo@1.0, b} with Foo@1.0 {a}.
IsScenarioA ==
    /\ root = 2
    /\ [i \in 1..Len(hidl[2].fields) |-> hidl[2].fields[i].name] = <<"v1_0", "b">>
    /\ hidl[2].fields[1].type.target = 1
    /\ [i \in 1..Len(hidl[1].fields) |-> hidl[1].fields[i].name] = <<"a">>

ScenarioARight ==
    IsScenarioA => /\ Names(fields) = <<"a", "b">>
                   /\ fields[1].fullName = <<"v1_0", ".", "a">>

\* Statement i reads the legacy value at the access path of merged field i
\* (through the accessor call, for a tagged union).
ReadsAtPath(i) ==
    translated.stmts[i].src \in
        {<<"in", ".">> \o fields[i].fullName, <<"in", ".">> \o fields[i].fullName \o <<"()">>}

\* Statement i writes the output member named by the field's own name.
WritesOwnName(i) ==
    LET n == FieldName(fields[i].field)
    IN  translated.stmts[i].dst \in
            {<<"out", "->", n>>, <<"out", ".", n>>, <<"out", ".", "set", CapitalizeName(n)>>}

C5_OwnFieldsFirst ==
    Done =>
        LET own == SelectSeq([i \in 1..Len(hidl[root].fields) |-> <<root, i>>],
                             LAMBDA r : IsPlain(r[1], r[2]))
        IN  /\ Len(fields) >= Len(own)
            /\ \A i \in 1..Len(own) : fields[i].field = own[i]

\* C5, amended: the merged list is in the order of first discovery by the
\* depth-first walk in declaration order: the fields an embedded version
\* contributes stand where the walk met the embedding field, so the newest
\* version's own fields come first only when it declares them before its
\* embedding field, and each version's new names keep its declaration order.
C5_DiscoveryOrder ==
    Done => Names(fields) = FirstOccurrences(FlatNames)

\* C5's case: the newest version declares its embedding field first, and the
\* merged list starts with a field of the embedded version.
C5_Witness ==
    /\ Done /\ Len(fields) >= 2
    /\ hidl[root].fields # <<>> /\ ~IsPlain(root, 1)
    /\ fields[1].field[1] # root
    /\ fields[Len(fields)].field[1] = root

\* C6: after a merge the sub-type set holds every sub-type declared by a
\* visited version, the newest version's among them, each once.
C6_SubTypesComplete ==
    Done =>
        /\ {subTypes[i] : i \in 1..Len(subTypes)} =
               UNION {{<<k, i>> : i \in 1..hidl[k].nsub} : k \in Reach(hidl, root)}
        /\ \A i \in 1..hidl[root].nsub : \E j \in 1..Len(subTypes) : subTypes[j] = <<root, i>>
        /\ NoDup(subTypes)

\* C6's case: a version that declares a sub-type was visited twice.
C6_Witness ==
    /\ Done
    /\ \E i, j \in 1..Len(Visits(root, 1)) :
          /\ i # j
          /\ Visits(root, 1)[i] = Visits(root, 1)[j]
          /\ hidl[Visits(root, 1)[i]].nsub > 0
    /\ hidl[root].nsub > 0

\* C7: every step of the merge that meets a field-name conflict appends
\* exactly one line to the notes, which names the version pair of the field
\* kept and the version pair of the field discarded; no other step of the
\* merge writes a line.
C7_ConflictLogged ==
    [][ /\ (phase = "merging" /\ IsConflict) =>
            LET i == FindByName(fields, CurField.name)
                line == notes'[Len(notes')]
                newKept == fields'[i].field = CurRef
            IN  /\ Len(notes') = Len(notes) + 1
                /\ SubSeq(notes', 1, Len(notes)) = notes
                /\ line.name = CurField.name
                /\ line.keptVersion = fields'[i].version
                /\ line.discardedVersion =
                       IF newKept THEN fields[i].version ELSE GetVersion(Top.type)
                /\ {line.keptVersion, line.discardedVersion} =
                       {fields[i].version, GetVersion(Top.type)}
        /\ ~(phase = "merging" /\ IsConflict) => notes' = notes
      ]_vars

\* C7's case: the log holds a line for a conflict between 1.0 and 1.1 and
\* a line for a conflict between 1.1 and 2.0.
C7_Witness ==
    /\ Len(notes) >= 2
    /\ \E i, j \in 1..Len(notes) :
          /\ notes[i].keptVersion = <<1, 1>> /\ notes[i].discardedVersion = <<1, 0>>
          /\ notes[j].keptVersion = <<2, 0>> /\ notes[j].discardedVersion = <<1, 1>>

\* ------------------------------------------------- claims about main()
\* A minor version strictly newer than the requested one exists.
NewerExists == \E m \in DOMAIN exists : m > fqName.minor /\ exists[m] = "yes"

\* main() has not yet got past the check for a newer minor version.
BeforeAccept == pc \in {"start", "highest", "newer"}

Rejected == pc = "exit" /\ exitCode = 1 /\ output = <<>>

\* C8: if a minor version strictly newer than the requested one exists and
\* the force flag is not given, the run never gets past the version check
\* other than by exiting non-zero with no output produced; with the force
\* flag an existing request always gets past it.
C8_NewerRejected ==
    /\ (~force /\ NewerExists) => (BeforeAccept \/ Rejected)
    /\ (force /\ pc # "start" /\ PackageExists(fqName) = "yes") => pc \notin {"highest", "newer"}

\* getLowestExistingFqName has returned.
LowestReturned == versionIt # NoFQName

\* C9: once getLowestExistingFqName has returned L for an existing target,
\* L has the target's package and major version, every minor version from
\* L up to the target exists, and L is minor 0 or the minor just below L
\* does not exist; and at no time has a minor version below the target been
\* probed unless every minor version above it, up to the target, exists.
C9_LowestExisting ==
    /\ LowestReturned =>
          /\ lowest.package = fqName.package
          /\ lowest.major = fqName.major
          /\ lowest.minor <= fqName.minor
          /\ \A m \in lowest.minor..fqName.minor : exists[m] = "yes"
          /\ lowest.minor = 0 \/ exists[lowest.minor - 1] = "no"
          /\ \A i \in 1..Len(probes) :
                probes[i] < fqName.minor => probes[i] >= lowest.minor - 1
    /\ \A i \in 1..Len(probes) :
          probes[i] < fqName.minor =>
             \A m \in (probes[i] + 1)..fqName.minor : exists[m] = "yes"

\* The walk went down from minor 2, found minor 1, and stopped at the gap
\* at minor 0.
C9_Witness ==
    /\ LowestReturned
    /\ fqName.minor = 2
    /\ lowest.minor = 1
    /\ exists[0] = "no"
    /\ \E i \in 1..Len(probes) : probes[i] = 0

KeyOf(f) == <<f.package, f.name, f.major>>

FqNames(list) == [i \in 1..Len(list) |-> list[i].fqName]

\* Of the entries of before that have key k, after holds the one with the
\* highest minor version and no other; after holds nothing that before
\* did not.
HighestOnly(before, after) ==
    /\ \A i \in 1..Len(before) :
          LET k  == KeyOf(before[i])
              mx == CHOOSE m \in {before[j].minor : j \in {j \in 1..Len(before) : KeyOf(before[j]) = k}} :
                        \A j \in 1..Len(before) : KeyOf(before[j]) = k => before[j].minor <= m
          IN  /\ \E j \in 1..Len(after) : KeyOf(after[j]) = k /\ after[j].minor = mx
              /\ \A j \in 1..Len(after) : KeyOf(after[j]) = k => after[j].minor = mx
    /\ \A j \in 1..Len(after) : after[j] \in Range(before)
    /\ \A i, j \in 1..Len(after) : after[i] = after[j] => i = j

TargetsDeduped == pc \in {"log", "types", "emitTypes", "interfaces"} \/ exitCode = 0

TypesDeduped == pc \in {"emitTypes", "interfaces"} \/ exitCode = 0

IsTypesFile(f) == f.name = "types"

IsInterfaceFile(f) == f.name # "types"

\* C10 as stated: after deduplication, of every key among the collected
\* targets and among the collected types only the entry with the highest
\* minor version remains, and it does remain.
C10_HighestPerKey ==
    /\ TargetsDeduped => HighestOnly(collected, targets)
    /\ TypesDeduped => HighestOnly(FqNames(collectedTypes), FqNames(namedTypes))

\* C10: after deduplication, of every key among the collected interface
\* files and among the collected named types only the entry with the
\* highest minor version remains, and it does remain; the types.hal file of
\* every collected version remains.
C10_HighestPerName ==
    /\ TargetsDeduped =>
          /\ HighestOnly(SelectSeq(collected, IsInterfaceFile),
                         SelectSeq(targets, IsInterfaceFile))
          /\ SelectSeq(targets, IsTypesFile) = SelectSeq(collected, IsTypesFile)
    /\ TypesDeduped => HighestOnly(FqNames(collectedTypes), FqNames(namedTypes))

\* Both deduplications ran, over an interface and a type that each exist in
\* two minor versions, and over the types.hal files of two versions.
C10_Witness ==
    /\ TargetsDeduped
    /\ TypesDeduped
    /\ \E i, j \in 1..Len(collected) :
          /\ i # j
          /\ IsInterfaceFile(collected[i])
          /\ KeyOf(collected[i]) = KeyOf(collected[j])
    /\ \E i, j \in 1..Len(collectedTypes) :
          /\ i # j
          /\ KeyOf(collectedTypes[i].fqName) = KeyOf(collectedTypes[j].fqName)
    /\ Len(namedTypes) < Len(collectedTypes)
    /\ Len(targets) < Len(collected)

\* ------------------------------------- claims about the converters
Succeeded == phase = "done" /\ result \in {"true", "returned"}

Failed == phase = "done" /\ result = Failure

\* The members the converter reads: all of a struct, the selected one of a
\* safe_union.
IsRead(i) == style = "struct" \/ (style = "safe_union" /\ Decl(i).name = input.disc)

IsScalarMember(i) == Decl(i).type.shape = "scalar"

\* The legacy number lies outside what the modern type can hold: unsigned
\* above the signed maximum, or signed below 0 for the unsigned char.
OutOfRange(kind, bits) ==
    /\ Signed(kind) # ModernSigned(kind)
    /\ Num(bits, Signed(kind)) # Num(bits, ModernSigned(kind))

\* The number a stored scalar stands for in its modern type.
SlotNum(slot) == Num(slot.bits, slot.type # "char")

\* C11: a scalar member the converter reads whose legacy value the modern
\* type cannot hold is never stored to the output, and a call that ends
\* ends in failure.
C11_OutOfRangeFails ==
    (phase \in {"running", "done"}) =>
        \A i \in 1..Len(translated.stmts) :
            (IsScalarMember(i) /\ IsRead(i)
                /\ OutOfRange(Decl(i).type.scalar, input.values[i].bits))
            => /\ out.slots[i].state = "old"
               /\ out.slots[i].bits # input.values[i].bits
               /\ phase = "done" => result = Failure

\* The call failed at the uint32_t member b = 0xf0000000, after member a
\* was stored.
C11_Witness ==
    /\ Failed
    /\ style = "struct"
    /\ Len(translated.stmts) = 2
    /\ Decl(2).type.scalar = "uint32_t"
    /\ input.values[2].bits = <<240, 0, 0, 0>>
    /\ out.slots[1].state = "written"
    /\ ip = 2

\* C12: a call never fails at a scalar member whose legacy value the modern
\* type can hold, and after a successful call the output member of every
\* scalar member read holds the same number as the legacy member.
C12_InRangePreserved ==
    /\ Failed =>
          ~(/\ ip \in 1..Len(translated.stmts)
            /\ IsScalarMember(ip)
            /\ ~OutOfRange(Decl(ip).type.scalar, input.values[ip].bits))
    /\ Succeeded =>
          \A i \in 1..Len(translated.stmts) :
              (IsScalarMember(i) /\ IsRead(i))
              => /\ out.slots[i].state = "written"
                 /\ SlotNum(out.slots[i])
                       = Num(input.values[i].bits, Signed(Decl(i).type.scalar))

\* The uint32_t member a = 0x70000000 was converted to the int 0x70000000.
C12_Witness ==
    /\ Succeeded
    /\ Decl(1).type.scalar = "uint32_t"
    /\ IsRead(1)
    /\ input.values[1].bits = <<112, 0, 0, 0>>
    /\ out.slots[1].bits = <<112, 0, 0, 0>>
    /\ out.slots[1].type = "int"

\* C13: the converter of a safe_union has one case per merged field, in
\* their order; it runs only the case of the member the discriminator
\* selects; and after a successful call that member, and no other, is set
\* in the output and holds the converted value.
C13_SelectedMember ==
    (style = "safe_union" /\ phase \in {"emitted", "running", "done"}) =>
        /\ translated.cases = [i \in 1..Len(fields) |-> FieldName(fields[i].field)]
        /\ Len(translated.stmts) = Len(translated.cases)
        /\ (phase = "running" /\ ip \in 1..Len(translated.stmts)) => Decl(ip).name = input.disc
        /\ Succeeded =>
              /\ out.tag # 0
              /\ Decl(out.tag).name = input.disc
              /\ \A i \in 1..Len(out.slots) :
                    out.slots[i].state = IF i = out.tag THEN "written" ELSE "old"
              /\ Decl(out.tag).type.shape \in {"scalar", "string"} =>
                    /\ out.slots[out.tag].bits = input.values[out.tag].bits
                    /\ out.slots[out.tag].text = input.values[out.tag].text

\* C14: a call on a safe_union whose discriminator names no merged field
\* never succeeds, and ends in failure: false in the C++ backends, a
\* RuntimeException in Java.
C14_UnknownDiscriminatorFails ==
    (style = "safe_union" /\ phase \in {"running", "done"}
        /\ \A i \in 1..Len(fields) : FieldName(fields[i].field) # input.disc) =>
        /\ result \notin {"true", "returned"}
        /\ \A i \in 1..Len(out.slots) : out.slots[i].state = "old"
        /\ phase = "done" =>
              /\ result = IF translated.backend = "JAVA" THEN "thrown" ELSE "false"
              /\ translated.backend = "JAVA" => message[1] = "Unknown discriminator value: "

\* The C++ converter of a safe_union of two members returned false at the
\* default label.
C14_Witness ==
    /\ style = "safe_union"
    /\ Len(translated.cases) = 2
    /\ input.disc = "unknown"
    /\ translated.backend = "NDK"
    /\ phase = "done"
    /\ result = "false"
    /\ ip = 0

UnionEmitted == style = "union" /\ phase \in {"emitted", "running", "done"}

\* The definition of a union is the placeholder, and no backend gets a
\* translation function, so none is ever called.
UnionPlaceholderOnly ==
    /\ (style = "union" /\ definition.written) =>
          /\ definition.placeholder
          /\ definition.body = <<>>
    /\ UnionEmitted =>
          /\ translated.stmts = <<>>
          /\ translated.cases = <<>>
          /\ ~Compiles
    /\ style = "union" => phase \notin {"running", "done"}

\* C15 as stated: for a union the generator produces only a placeholder
\* definition and no translation function, and has appended an entry to
\* the diagnostics log.
C15_UnionLogged ==
    /\ UnionPlaceholderOnly
    /\ UnionEmitted => notes # <<>>

SourceEmitted == style # "union" /\ phase \in {"emitted", "running", "done"}

\* The diagnostics log holds a note about field i.
Noted(i) == \E n \in 1..Len(notes) : notes[n].field = Decl(i).name

\* C16: for every merged field of a named type the converter holds a call
\* of that type's converter (the type being among the converted ones), or
\* the code the replaced type's hook splices in, or the unknown-type marker
\* with a note in the diagnostics log.
C16_NamedFieldCovered ==
    SourceEmitted =>
        \A i \in 1..Len(translated.stmts) :
            Decl(i).type.shape = "named" =>
                \/ Decl(i).type.named = "converted" /\ Stmt(i).op = "call"
                \/ Decl(i).type.named \in {"replaced_hook", "replaced"} /\ Stmt(i).op = "hook"
                \/ Stmt(i).op = "marker" /\ Noted(i)

\* C17: for an array or vector field whose elements are arrays, vectors or
\* named types other than enums, the converter holds a marker and no loop,
\* and the diagnostics log holds a note.
C17_UnsupportedElementNoted ==
    SourceEmitted =>
        \A i \in 1..Len(translated.stmts) :
            (Decl(i).type.shape \in {"array", "vector"}
                /\ Decl(i).type.elem \in {"array", "vector", "compound"})
            => /\ Stmt(i).op = "marker"
               /\ Stmt(i).op # "loop"
               /\ Noted(i)

\* The fields containerTranslation emits a loop for.
IsLoopMember(i) ==
    /\ Decl(i).type.shape \in {"array", "vector"}
    /\ Decl(i).type.elem \notin {"array", "vector", "compound"}

ElemOutOfRange(i, k) ==
    /\ Decl(i).type.elem \in ScalarKinds
    /\ OutOfRange(Decl(i).type.elem, input.values[i].elems[k].bits)

\* The first n input elements of field i, converted.
ConvertedElems(i, n) ==
    [k \in 1..n |-> Converted(Decl(i).type.elem, input.values[i].elems[k], Stmt(i).wrap)]

\* The loop of a struct's field i has copied n elements: the output holds
\* them, in order, after what the caller's container held (C++, push_back)
\* or in the first n places of the newly allocated array (Java).
CopiedSoFar(i, n) ==
    LET size == Len(input.values[i].elems)
        elems == out.slots[i].elems
    IN  IF translated.backend = "JAVA"
        THEN elems = ConvertedElems(i, n) \o [k \in 1..(size - n) |-> DefaultElem]
        ELSE \E prior \in {<<>>, <<OldElem>>} : elems = prior \o ConvertedElems(i, n)

\* C18 as stated: after a successful call the output container of a field
\* with scalar, enum or string elements has the length of the input
\* container, and its element k is the converted input element k.
C18_SameLength ==
    (Succeeded /\ style = "struct") =>
        \A i \in 1..Len(translated.stmts) :
            IsLoopMember(i) =>
                out.slots[i].elems = ConvertedElems(i, Len(input.values[i].elems))

\* C18: the loop of such a field visits the indices in order and checks
\* each element before it copies it: the elements before the index reached
\* passed the check and stand converted, in order, behind what the output
\* container held at the call (nothing in Java, whose array is new). A call
\* that fails in the loop fails at the first element out of range; a call
\* on an input with an element out of range never succeeds; after a
\* successful call all elements stand converted.
C18_ElementsAppended ==
    (phase \in {"running", "done"} /\ style = "struct") =>
        \A i \in 1..Len(translated.stmts) :
            IsLoopMember(i) =>
                LET size == Len(input.values[i].elems)
                    n == IF Succeeded \/ i < ip THEN size
                         ELSE IF i = ip THEN idx ELSE 0
                IN  /\ Stmt(i).op = "loop"
                    /\ (i = ip /\ idx = 0 /\ phase = "running") \/ i > ip \/ CopiedSoFar(i, n)
                    /\ \A k \in 1..n : ~ElemOutOfRange(i, k)
                    /\ (Failed /\ i = ip) => (idx < size /\ ElemOutOfRange(i, idx + 1))
                    /\ Succeeded => out.slots[i].state = "written"
                    /\ (phase = "done" /\ \E k \in 1..size : ElemOutOfRange(i, k)) => Failed

\* The C++ converter appended two converted elements to a container that
\* held an element before the call.
C18_Witness ==
    /\ Succeeded
    /\ style = "struct"
    /\ translated.backend = "CPP"
    /\ IsLoopMember(1)
    /\ Decl(1).type.elem = "uint32_t"
    /\ Len(input.values[1].elems) = 2
    /\ out.slots[1].elems = <<OldElem>> \o ConvertedElems(1, 2)

\* A call failed at the second element of a container, having copied the
\* first.
C18_FailWitness ==
    /\ Failed
    /\ style = "struct"
    /\ IsLoopMember(1)
    /\ ip = 1
    /\ idx = 1
    /\ ElemOutOfRange(1, 2)

\* The Java converter threw at the range check of the scalar member a.
ThrownAtMemberA ==
    /\ phase = "done"
    /\ result = "thrown"
    /\ style = "struct"
    /\ ip \in 1..Len(translated.stmts)
    /\ Decl(ip).name = "a"
    /\ IsScalarMember(ip)

\* C19: the RuntimeException the Java converter throws at the range check
\* of the scalar member a has exactly the message "Unsafe conversion
\* between signed and unsigned scalars for field: a".
C19_MessageNamesField ==
    ThrownAtMemberA =>
        message = <<"Unsafe conversion between signed and unsigned scalars for field: ", <<"a">>>>

\* What the message is: the fixed text followed by the access path in.a.
C19_MessageNamesAccess ==
    ThrownAtMemberA =>
        message = <<"Unsafe conversion between signed and unsigned scalars for field: ",
                    <<"in", ".", "a">>>>

\* A struct converter of a boolean backend returned false at field ip.
FailedAtField ==
    /\ Failed
    /\ style = "struct"
    /\ translated.backend # "JAVA"
    /\ ip \in 1..Len(translated.stmts)

\* What the converter leaves in the output member of a field it has passed:
\* the converted value; nothing where no code was emitted for the field.
FieldWritten(i, before) ==
    CASE Stmt(i).op = "assign" ->
            out.slots[i] = Converted(Decl(i).type.scalar, input.values[i], Stmt(i).wrap)
                               @@ [state |-> "written", elems |-> <<>>]
      [] Stmt(i).op = "loop" ->
            /\ out.slots[i].state = "written"
            /\ out.slots[i].elems
                  = before.elems \o ConvertedElems(i, Len(input.values[i].elems))
      [] Stmt(i).op = "call" ->
            out.slots[i].state = "written" /\ out.slots[i].text = "ok"
      [] OTHER -> out.slots[i] = before

\* C20 as stated: after the failure at field k the members of the fields
\* before k hold what was written to them, and the members of field k and
\* of every later field are as they were at the call.
C20_FailedFieldUnchanged ==
    FailedAtField =>
        \E stale \in BOOLEAN :
            /\ result = "false"
            /\ \A i \in 1..(ip - 1) : FieldWritten(i, OldSlot(stale))
            /\ \A i \in ip..Len(translated.stmts) : out.slots[i] = OldSlot(stale)

\* C20: after the failure at field k the call has returned false without
\* rollback: the members of the fields before k hold what was written to
\* them and those of the fields after k are as they were at the call. The
\* member of field k is as it was at the call if k is a scalar or string; a
\* container k holds, behind what it held at the call, the converted
\* elements before the failing one; a k of a named type holds what the
\* nested converter wrote before it failed.
C20_NoRollback ==
    FailedAtField =>
        \E stale \in BOOLEAN :
            /\ result = "false"
            /\ \A i \in 1..(ip - 1) : FieldWritten(i, OldSlot(stale))
            /\ \A i \in (ip + 1)..Len(translated.stmts) : out.slots[i] = OldSlot(stale)
            /\ CASE Stmt(ip).op = "assign" -> out.slots[ip] = OldSlot(stale)
                 [] Stmt(ip).op = "loop" ->
                       /\ out.slots[ip].elems = OldSlot(stale).elems \o ConvertedElems(ip, idx)
                       /\ out.slots[ip].state = IF idx = 0 THEN "old" ELSE "partial"
                       /\ ElemOutOfRange(ip, idx + 1)
                 [] Stmt(ip).op = "call" ->
                       \/ out.slots[ip] = OldSlot(stale)
                       \/ out.slots[ip].state = "partial"
                 [] OTHER -> FALSE

\* The call failed at the scalar field b after it stored field a; b is as
\* it was at the call.
C20_Witness ==
    /\ FailedAtField
    /\ ip = 2
    /\ Stmt(1).op = "assign"
    /\ Stmt(2).op = "assign"
    /\ out.slots[1].state = "written"
    /\ out.slots[1].bits = input.values[1].bits
    /\ out.slots[2].state = "old"

\* The call failed at the second element of the container b: b holds the
\* converted first element.
C20_PartialWitness ==
    /\ FailedAtField
    /\ ip = 2
    /\ Stmt(2).op = "loop"
    /\ idx = 1
    /\ out.slots[2].elems = ConvertedElems(2, 1)
    /\ out.slots[1].state = "written"

\* ------------------------------- claims about a whole run of main()
\* main() has left through exit(1).
Fatal == pc = "exit" /\ exitCode = 1

\* The exit was taken while the versions were resolved and the targets
\* collected: before conversion.log was opened.
FatalWhileResolving == Fatal /\ cursor = 0

\* C21: whenever the run has left through exit(1), for a missing version, a
\* newer minor version without force, a probe error or a parse failure,
\* nothing has been written: neither conversion.log nor any other file.
C21_FatalBeforeOutput == Fatal => output = <<>>

\* The part of C21 that holds: an exit taken before the parsing starts
\* leaves no output.
C21_ResolutionFatalBeforeOutput == FatalWhileResolving => output = <<>>

\* ------------------------------ claims about the emitted definition
Emitted == definition.written

\* The place of a piece in the output of emitAidl, 0 if it is not there.
PlaceOf(piece) ==
    IF \E i \in 1..Len(definition.emitted) : definition.emitted[i] = piece
    THEN CHOOSE i \in 1..Len(definition.emitted) : definition.emitted[i] = piece
    ELSE 0

\* The merged field list and the set of merged sub-types are those the
\* input alone determines.
SameListAndSet ==
    Done =>
        /\ Names(fields) = FirstOccurrences(FlatNames)
        /\ {subTypes[i] : i \in 1..Len(subTypes)} =
               UNION {{<<k, i>> : i \in 1..hidl[k].nsub} : k \in Reach(hidl, root)}

\* C22: a run on the same versions yields what every other run on them
\* yields: the same merged field list and sub-type set, and the sub-types
\* emitted in the same order, that of the run whose parser put all objects
\* in one part of the heap.
C22_SameOnRerun ==
    /\ SameListAndSet
    /\ Done =>
          \A i, j \in 1..Len(subTypes) :
              i < j => Offset(subTypes[i]) < Offset(subTypes[j])
    /\ Emitted =>
          \A i, j \in 1..Len(subTypes) :
              (Offset(subTypes[i]) < Offset(subTypes[j]))
                  => PlaceOf(Piece("aidl", subTypes[i])) < PlaceOf(Piece("aidl", subTypes[j]))

\* C23: when the definition of a compound type has been written, every
\* sub-type of its merged sub-type set has been emitted, and emitted before
\* the definition text of the parent.
C23_SubTypesBeforeParent ==
    Emitted =>
        \A i \in 1..Len(subTypes) :
            /\ PlaceOf(Piece("aidl", subTypes[i])) > 0
            /\ PlaceOf(Piece("aidl", subTypes[i])) < PlaceOf(Piece("definition", <<root, 0>>))

\* The definition of a type whose merge gathered the sub-types of two
\* versions was written.
C23_Witness ==
    /\ Emitted
    /\ Len(subTypes) >= 2
    /\ \E i \in 1..Len(subTypes) : subTypes[i][1] # root
    /\ \E i \in 1..Len(subTypes) : subTypes[i][1] = root
    /\ PlaceOf(Piece("definition", <<root, 0>>)) = Len(subTypes) + 3

\* The merged fields and sub-types the newest version does not declare.
OlderFields == {i \in 1..Len(fields) : fields[i].field[1] # root}

OlderSubTypes == {i \in 1..Len(subTypes) : subTypes[i][1] # root}

\* C24: the extra imports of a struct are the types of exactly the merged
\* fields the newest version does not declare itself and exactly the merged
\* sub-types it does not declare itself, and they are written before the
\* definition.
C24_ExtraImports ==
    (Emitted /\ style = "struct") =>
        /\ definition.imports =
               {[name |-> TypeNameOfField(FieldAt(fields[i].field))[2], at |-> <<0, 0>>] :
                   i \in OlderFields}
               \cup {[name |-> "sub", at |-> subTypes[i]] : i \in OlderSubTypes}
        /\ PlaceOf(Piece("imports", <<root, 0>>)) > 0
        /\ PlaceOf(Piece("imports", <<root, 0>>)) < PlaceOf(Piece("definition", <<root, 0>>))

\* A struct whose merged list holds a field of its own and a field of an
\* older version, and whose sub-type set holds one of each, was written.
C24_Witness ==
    /\ Emitted
    /\ style = "struct"
    /\ OlderFields # {}
    /\ OlderFields # 1..Len(fields)
    /\ OlderSubTypes # {}
    /\ OlderSubTypes # 1..Len(subTypes)
    /\ Cardinality(definition.imports) = 2

\* ------------------------------------ claims about emitTranslation
TranslationDone == backendIt = Len(BackendOrder) + 1

\* The assertions the source of a backend holds for enum e.
AssertsOf(backend, e) ==
    {a \in UNION {{sources[i].asserts[j] : j \in 1..Len(sources[i].asserts)} :
                     i \in {i \in 1..Len(sources) : sources[i].backend = backend}} :
        a.enum = EnumNames[e]}

\* What C25 asks of the sources written: for each C++ backend and each enum
\* one assertion per value of the chain, the root's values included; none
\* in Java.
AssertsPerValue ==
    /\ \A backend \in {"NDK", "CPP"} :
          \A e \in 1..Len(package.enums) :
              /\ \E i \in 1..Len(sources) : sources[i].backend = backend
              /\ {a.value : a \in AssertsOf(backend, e)}
                    = UNION {{package.enums[e][l][v] : v \in 1..Len(package.enums[e][l])} :
                                l \in 1..Len(package.enums[e])}
              /\ Cardinality(AssertsOf(backend, e))
                    = Len(Concat(package.enums[e]))
    /\ \A i \in 1..Len(sources) : sources[i].backend = "JAVA" => sources[i].asserts = <<>>

\* C25: once emitTranslation has returned, the C++ sources hold one
\* assertion per value of every enum of the package, and Java's none.
C25_AssertPerEnumValue == TranslationDone => AssertsPerValue

\* The part of C25 that holds: the same for a package of which at least
\* one compound type was processed.
C25_AssertPerEnumValueWithCompound ==
    (TranslationDone /\ package.compounds > 0) => AssertsPerValue

\* ------------------------------------ claims about nested converters
\* Field i is of a named type and the converter of that type fails on the
\* value the input holds.
NestedFails(i) ==
    /\ Stmt(i).op = "call"
    /\ IsRead(i)
    /\ input.values[i].nested # "ok"

\* An emitted range check of field i fails on the input.
RangeCheckFails(i) ==
    /\ IsRead(i)
    /\ Stmt(i).checks # <<>>
    /\ \/ /\ Stmt(i).op = "assign"
          /\ CheckFails(Stmt(i).checks[1], input.values[i].bits, Decl(i).type.scalar,
                        translated.backend)
       \/ /\ Stmt(i).op = "loop"
          /\ \E k \in 1..Len(input.values[i].elems) :
                CheckFails(Stmt(i).checks[1], input.values[i].elems[k].bits,
                           Decl(i).type.elem, translated.backend)

\* C26: in the C++ backends the converter never goes on past a field whose
\* nested converter returned false: it has returned false at that field,
\* and the output members of all later fields are as they were at the call;
\* and it has returned true only if no nested converter and no emitted
\* range check of a field it read failed.
C26_NestedFailureReturnsFalse ==
    (translated.backend \in {"NDK", "CPP"} /\ phase \in {"running", "done"}) =>
        /\ \A i \in 1..Len(translated.stmts) :
              (NestedFails(i) /\ ip >= i) =>
                  /\ ip = i
                  /\ phase = "done" =>
                        /\ result = "false"
                        /\ \A j \in (i + 1)..Len(translated.stmts) :
                              out.slots[j].state = "old"
        /\ (phase = "done" /\ result = "true") =>
              \A i \in 1..Len(translated.stmts) : ~NestedFails(i) /\ ~RangeCheckFails(i)

\* The C++ converter of a struct returned false at its first field, of a
\* named type, and left the second field alone.
C26_Witness ==
    /\ translated.backend \in {"NDK", "CPP"}
    /\ style = "struct"
    /\ Len(translated.stmts) = 2
    /\ phase = "done"
    /\ result = "false"
    /\ ip = 1
    /\ NestedFails(1)
    /\ out.slots[2].state = "old"

\* The C++ converter returned true after the nested converter of a field
\* returned true.
C26_TrueWitness ==
    /\ translated.backend \in {"NDK", "CPP"}
    /\ phase = "done"
    /\ result = "true"
    /\ \E i \in 1..Len(translated.stmts) :
          Stmt(i).op = "call" /\ IsRead(i) /\ input.values[i].nested = "ok"

\* ------------------------------------ claims about the compaction
\* The filter against the unmodified list: the entries for which the
\* predicate, searching the list as it was, is false, in their order.
Filtered(kind, list) == SelectSeq(list, LAMBDA x : ~Pred(kind, x, list))

\* C27: what the compaction in place (remove_if, whose predicate searches
\* the list while it is compacted, then erase) leaves of a list is what the
\* filter against the unmodified list keeps, in the same order.
C27_InPlaceEqualsFilter ==
    /\ pc \in {"log", "emitTypes"} => targets = Filtered("targets", collected)
    /\ pc = "emitTypes" => namedTypes = Filtered("types", collectedTypes)

\* An entry that was kept was moved down over a removed one, and an entry
\* behind it was then tested, and removed, against the compacted list.
C27_Witness ==
    /\ pc = "log"
    /\ Len(collected) = 4
    /\ Len(targets) = 2
    /\ TargetsPred(collected[1], collected)
    /\ ~TargetsPred(collected[2], collected)
    /\ ~TargetsPred(collected[3], collected)
    /\ TargetsPred(collected[4], collected)
    /\ KeyOf(collected[4]) = KeyOf(collected[3])

\* The same for the list of named types.
C27_TypesWitness ==
    /\ pc = "emitTypes"
    /\ Len(collectedTypes) = 4
    /\ Len(namedTypes) = 2
    /\ TypesPred(collectedTypes[1], collectedTypes)
    /\ TypesPred(collectedTypes[4], collectedTypes)
    /\ KeyOf(collectedTypes[4].fqName) = KeyOf(collectedTypes[3].fqName)

\* ------------------------------------ claims about a conflict's frame
\* C28: a step of the merge that meets a field-name conflict leaves the
\* length of the merged list and every entry but the one of that name as
\* they are; if the newly visited field is of the newer version, the entry
\* of that name holds, at its old position, the reference, the version pair
\* and the access path of the newly visited field; if not, the list is
\* unchanged.
C28_WinnerInPlace ==
    [][ (phase = "merging" /\ IsConflict) =>
            LET i == FindByName(fields, CurField.name)
            IN  /\ Len(fields') = Len(fields)
                /\ \A j \in 1..Len(fields) : j # i => fields'[j] = fields[j]
                /\ IF NewerVersion(GetVersion(Top.type), fields[i].version)
                   THEN /\ fields'[i].field = CurRef
                        /\ fields'[i].version = GetVersion(Top.type)
                        /\ fields'[i].fullName = Top.prefix \o <<CurField.name>>
                   ELSE fields' = fields
      ]_vars

\* A later-visited field of a newer version has won the conflict over the
\* first of two entries: the list has the winner first, and the other
\* entry behind it.
C28_Witness ==
    /\ Len(fields) >= 2
    /\ \E n \in 1..Len(notes) :
          /\ NewerVersion(notes[n].keptVersion, notes[n].discardedVersion)
          /\ FieldName(fields[1].field) = notes[n].name
          /\ fields[1].version = notes[n].keptVersion
          /\ NewerVersion(fields[1].version, fields[2].version)

\* A later-visited field has lost a conflict.
C28_LoseWitness ==
    \E n \in 1..Len(notes) :
        /\ ~NewerVersion(notes[n].keptVersion, notes[n].discardedVersion)
        /\ \E i \in 1..Len(fields) :
              FieldName(fields[i].field) = notes[n].name /\ fields[i].version = notes[n].keptVersion

\* ------------------------------------ claims about the target list
\* The entries of a list stand in ascending order of their minor version.
Ascending(list) ==
    \A i, j \in 1..Len(list) : i < j => list[i].minor <= list[j].minor

\* While the targets are collected: the versions before versionIt, from
\* the lowest existing one on, have been visited, in ascending order.
CollectingInOrder ==
    pc = "collect" =>
        /\ versionIt.minor \in lowest.minor..(fqName.minor + 1)
        /\ Ascending(targets)
        /\ \A i \in 1..Len(targets) :
              targets[i].minor \in lowest.minor..(versionIt.minor - 1)

\* After the remove_if over targets: every types.hal collected is still in
\* the list, and of every interface only the newest minor version.
TypesFilesKept ==
    TargetsDeduped =>
        /\ Ascending(collected)
        /\ \A i \in 1..Len(collected) : collected[i].minor \in lowest.minor..fqName.minor
        /\ \A i \in 1..Len(collected) :
              IsTypesFile(collected[i]) => \E j \in 1..Len(targets) : targets[j] = collected[i]
        /\ \A i \in 1..Len(collected) :
              IsInterfaceFile(collected[i]) =>
                  (\E j \in 1..Len(targets) : targets[j] = collected[i])
                      <=> (\A k \in 1..Len(collected) :
                              KeyOf(collected[k]) = KeyOf(collected[i])
                                  => collected[k].minor <= collected[i].minor)
        /\ \A j \in 1..Len(targets) : \E i \in 1..Len(collected) : collected[i] = targets[j]
        /\ Ascending(targets)

\* One turn of the loop over the versions: the files of versionIt are
\* appended and versionIt steps up by one; the loop is entered at the
\* lowest existing version and left behind the requested one.
OneVersionPerTurn ==
    /\ (pc = "lowest" /\ pc' = "collect") => versionIt' = lowest'
    /\ (pc = "collect" /\ pc' = "collect") =>
          /\ versionIt'.minor = versionIt.minor + 1
          /\ versionIt.minor <= fqName.minor
          /\ Len(targets') >= Len(targets)
          /\ SubSeq(targets', 1, Len(targets)) = targets
          /\ \A i \in (Len(targets) + 1)..Len(targets') : targets'[i].minor = versionIt.minor
          /\ \A i, j \in (Len(targets) + 1)..Len(targets') :
                targets'[i] = targets'[j] => i = j
    /\ (pc = "collect" /\ pc' = "log") => versionIt.minor = fqName.minor + 1

\* C29: the loop that collects the targets visits the minor versions from
\* the lowest existing one to the requested one, each once and in ascending
\* order; the remove_if over the list removes no entry named "types", so the
\* types.hal of every visited version stays in it, and leaves of every
\* interface the entry of the newest minor version only.
C29_TargetsVisitedAndTypesKept ==
    /\ []CollectingInOrder
    /\ []TypesFilesKept
    /\ [][OneVersionPerTurn]_vars

\* The versions 1.0 and 1.1 were visited, each with a types.hal and IFoo:
\* both types.hal are in the list and, of IFoo, 1.1 only.
C29_Witness ==
    /\ TargetsDeduped
    /\ collected = <<MkFQName(0, "types"), MkFQName(0, "IFoo"),
                     MkFQName(1, "types"), MkFQName(1, "IFoo")>>
    /\ targets = <<MkFQName(0, "types"), MkFQName(1, "types"), MkFQName(1, "IFoo")>>

\* ------------------------------------ claims about termination
\* The probes of the downward walk, and those of the upward walk.
DownwardProbes == {i \in 1..Len(probes) : probes[i] < fqName.minor}

UpwardProbes == {i \in 1..Len(probes) : probes[i] > fqName.minor}

\* The minor versions above the requested one that exist without a gap.
ConsecutiveNewer ==
    {m \in DOMAIN exists :
        m > fqName.minor /\ \A n \in (fqName.minor + 1)..m : exists[n] = "yes"}

\* The walks make no more probes than they may.
ProbesBounded ==
    /\ Cardinality(DownwardProbes) <= fqName.minor
    /\ Cardinality(UpwardProbes) <= Cardinality(ConsecutiveNewer) + 1

\* Every call of processCompoundType on the stack is on a version strictly
\* older than its caller's.
RecursionDescends ==
    \A k \in 1..(Len(stack) - 1) : stack[k + 1].type < stack[k].type

WalksOver == pc \notin {"start", "highest", "newer", "lowest"}

MergeOver == phase \notin {"idle", "merging"}

\* C30: the downward walk makes at most as many probes as the minor
\* version of the target and the upward walk at most one more than there
\* are consecutive newer minor versions, and both come to an end; every
\* nested call of the merge is on a strictly older version, and the merge
\* comes to an end.
C30_WalksAndMergeTerminate ==
    /\ []ProbesBounded
    /\ []RecursionDescends
    /\ <>[]WalksOver
    /\ <>[]MergeOver

\* The downward walk from minor 2 has ended at minor 0 after two probes, and
\* the upward walk before it after one.
C30_Witness ==
    /\ pc = "collect"
    /\ fqName.minor = 2
    /\ lowest.minor = 0
    /\ Cardinality(DownwardProbes) = 2

\* The merge of version 2.0, which embeds 1.1, which embeds 1.0, has ended.
C30_MergeWitness ==
    /\ phase = "merged"
    /\ root = 3
    /\ \E i \in 1..Len(hidl[3].fields) : hidl[3].fields[i].type.target = 2
    /\ \E i \in 1..Len(hidl[2].fields) : hidl[2].fields[i].type.target = 1

\* The upward walk has ended after it found minor 1 and minor 2 above the
\* target and nothing above them.
C30_UpwardWitness ==
    /\ pc = "newer"
    /\ fqName.minor = 0
    /\ Cardinality(UpwardProbes) = 3

====
